---- MODULE Spec2Model ----
(***************************************************************************)
(* A model of fast-plist's parse(content, locationKeyName) (src/main.ts).  *)
(*                                                                         *)
(* The input text is a sequence of characters (one-character strings).     *)
(* One action of the model is one iteration of parse's main loop: the      *)
(* scanner calls, the tag reader and the tree builder handler it runs.     *)
(* JavaScript objects and arrays are reference values: they live in `heap` *)
(* and are named by their index, so that `cur`, the object stack and the   *)
(* parent container alias one another as they do in the program.           *)
(***************************************************************************)
EXTENDS Integers, Sequences, FiniteSets, TLC

VARIABLES
    content,      \* the input text, a sequence of characters
    track,        \* locationKeyName !== null
    pos,          \* offset of the cursor (0-based)
    line,         \* line counter (location tracking)
    char,         \* column counter (location tracking)
    state,        \* ROOT_STATE, DICT_STATE or ARR_STATE
    cur,          \* the current value (a leaf, or a reference into heap)
    stateStack,   \* saved states
    objStack,     \* saved current values
    curKey,       \* the pending key, or NoKey
    heap,         \* the objects and arrays allocated so far
    status,       \* "running", "returned" or "failed"
    err,          \* the Error thrown, NoErr when none
    result,       \* the value parse returned
    step,         \* the branch of the main loop taken by the last iteration
    keyIn,        \* history: the dictionary (index in heap) the last <key> was read in
    rootSets,     \* history: how many times a value was set in Root state
    keyLeft,      \* history: a dictionary was closed while a key read in it was pending
    opens,        \* history: state and cur before the opening of each open container
    log,          \* history: what each iteration of this run left behind
    first,        \* the outcome of the first run, once the input is parsed again
    doc           \* how the input was put together (a list of tags), or <<>>

vars == << content, track, pos, line, char, state, cur, stateStack, objStack,
           curKey, heap, status, err, result, step, keyIn, rootSets, keyLeft, opens,
           log, first, doc >>

(***************************************************************************)
(* Characters                                                              *)
(***************************************************************************)
BOM == "BOM"
SPACE == " "
TAB == "\t"
CARRIAGE_RETURN == "\r"
LINE_FEED == "\n"
SLASH == "/"
LESS_THAN == "<"
QUESTION_MARK == "?"
EXCLAMATION_MARK == "!"
\* charCodeAt past the end of the text
NaNCh == "NaN"

ROOT_STATE == 0
DICT_STATE == 1
ARR_STATE == 2

len == Len(content)

charCodeAt(s, i) == IF i >= 0 /\ i < Len(s) THEN s[i + 1] ELSE NaNCh

\* s.substring(from, to), 0 <= from
substring(s, from, to) ==
    LET t == IF to > Len(s) THEN Len(s) ELSE to
    IN  IF from >= t THEN << >> ELSE SubSeq(s, from + 1, t)

\* s.substr(from, n)
substr(s, from, n) == substring(s, from, from + n)

\* s.indexOf(str, from), str not empty, 0 <= from: the first place at or after
\* from where str stands in s, -1 when there is none
indexOf(s, str, from) ==
    LET found == { i \in from..(Len(s) - Len(str)) :
                     \A j \in 1..Len(str) : s[i + j] = str[j] }
    IN  IF found = {} THEN -1 ELSE CHOOSE i \in found : \A k \in found : i <= k

IsWhitespace(c) == c \in {SPACE, TAB, CARRIAGE_RETURN, LINE_FEED}

\* the white space of String.prototype.trim, parseInt and parseFloat: U+FEFF
\* is white space in ECMAScript
IsStrWhiteSpace(c) == IsWhitespace(c) \/ c = BOM

\* s.trim()
RECURSIVE trimLeft(_)
trimLeft(s) == IF s # << >> /\ IsStrWhiteSpace(Head(s)) THEN trimLeft(Tail(s)) ELSE s
RECURSIVE trimRight(_)
trimRight(s) ==
    IF s # << >> /\ IsStrWhiteSpace(s[Len(s)]) THEN trimRight(SubSeq(s, 1, Len(s) - 1)) ELSE s
trim(s) == trimRight(trimLeft(s))

(***************************************************************************)
(* Scanner.  A cursor is the triple pos, line, char.                       *)
(***************************************************************************)
Cursor == [pos |-> pos, line |-> line, char |-> char]

\* a variant of the loop of advancePosBy: it ends after the first line feed
advanceLoop_stopAtFeed(c, by) ==
    IF by <= 0 THEN c
    ELSE LET feeds == { i \in c.pos..(c.pos + by - 1) : charCodeAt(content, i) = LINE_FEED }
             feed == CHOOSE i \in feeds : \A k \in feeds : i <= k
         IN  IF feeds = {} THEN [pos |-> c.pos + by, line |-> c.line, char |-> c.char + by]
             ELSE [pos |-> feed + 1, line |-> c.line + 1, char |-> 0]

\* the loop of advancePosBy, by its result: pos moves by `by`, line counts the
\* line feeds passed over, char the characters after the last of them
advanceLoop(c, by) ==
    IF by <= 0 THEN c
    ELSE LET feeds == { i \in c.pos..(c.pos + by - 1) : charCodeAt(content, i) = LINE_FEED }
             last == CHOOSE i \in feeds : \A k \in feeds : k <= i
         IN  IF feeds = {} THEN [pos |-> c.pos + by, line |-> c.line, char |-> c.char + by]
             ELSE [pos |-> c.pos + by,
                   line |-> c.line + Cardinality(feeds),
                   char |-> c.pos + by - 1 - last]

advancePosBy(c, by) ==
    IF ~track THEN [c EXCEPT !.pos = c.pos + by] ELSE advanceLoop(c, by)

\* a variant of advancePosTo: the cursor steps back instead of going to `to`
advancePosTo_back(c, to) == [c EXCEPT !.pos = c.pos - 1]

\* a variant of advancePosTo: one character too far
advancePosTo_past(c, to) ==
    IF ~track THEN [c EXCEPT !.pos = to + 1] ELSE advancePosBy(c, to + 1 - c.pos)

advancePosTo(c, to) ==
    IF ~track THEN [c EXCEPT !.pos = to] ELSE advancePosBy(c, to - c.pos)

RECURSIVE skipWhitespace(_)
skipWhitespace(c) ==
    IF c.pos < len /\ IsWhitespace(charCodeAt(content, c.pos))
      THEN skipWhitespace(advancePosBy(c, 1))
      ELSE c

\* the result is the pair: did it match, and the cursor afterwards
advanceIfStartsWith(c, str) ==
    IF substr(content, c.pos, Len(str)) = str
      THEN [ok |-> TRUE, c |-> advancePosBy(c, Len(str))]
      ELSE [ok |-> FALSE, c |-> c]

\* a variant of advanceUntil: the cursor stops before the delimiter
advanceUntil_before(c, str) ==
    LET nextOccurence == indexOf(content, str, c.pos)
    IN  IF nextOccurence # -1
          THEN advancePosTo(c, nextOccurence)
          ELSE advancePosTo(c, len)

advanceUntil(c, str) ==
    LET nextOccurence == indexOf(content, str, c.pos)
    IN  IF nextOccurence # -1
          THEN advancePosTo(c, nextOccurence + Len(str))
          ELSE advancePosTo(c, len)

\* a variant of captureUntil: nothing is captured and the cursor stays when
\* the delimiter is missing
captureUntil_strict(c, str) ==
    LET nextOccurence == indexOf(content, str, c.pos)
    IN  IF nextOccurence # -1
          THEN [r |-> substring(content, c.pos, nextOccurence),
                c |-> advancePosTo(c, nextOccurence + Len(str))]
          ELSE [r |-> << >>, c |-> c]

captureUntil(c, str) ==
    LET nextOccurence == indexOf(content, str, c.pos)
    IN  IF nextOccurence # -1
          THEN [r |-> substring(content, c.pos, nextOccurence),
                c |-> advancePosTo(c, nextOccurence + Len(str))]
          ELSE [r |-> substring(content, c.pos, len),
                c |-> advancePosTo(c, len)]

(***************************************************************************)
(* Values.  Every value is a record of the same shape: t is its type, s a  *)
(* text, n and e numbers.  A JavaScript number is n * 10^e with n not      *)
(* divisible by 10 (0 is 0 * 10^0), so that equal numbers are equal        *)
(* records whatever literal they were read from.  A container is a         *)
(* reference: n is its index in heap.                                      *)
(***************************************************************************)
Null == [t |-> "null", s |-> << >>, n |-> 0, e |-> 0]
Undefined == [t |-> "undefined", s |-> << >>, n |-> 0, e |-> 0]
StrVal(s) == [t |-> "string", s |-> s, n |-> 0, e |-> 0]
BoolVal(b) == [t |-> "boolean", s |-> << >>, n |-> IF b THEN 1 ELSE 0, e |-> 0]
NumVal(m, x) == [t |-> "number", s |-> << >>, n |-> m, e |-> x]
NaN == [t |-> "NaN", s |-> << >>, n |-> 0, e |-> 0]
DateVal(s) == [t |-> "date", s |-> s, n |-> 1, e |-> 0]
InvalidDate == [t |-> "date", s |-> << >>, n |-> 0, e |-> 0]
Ref(id) == [t |-> "ref", s |-> << >>, n |-> id, e |-> 0]

NoKey == [has |-> FALSE, k |-> << >>]
Key(k) == [has |-> TRUE, k |-> k]

\* a new {} and a new []
NewDict == [kind |-> "dict", map |-> << >>, items |-> << >>]
NewArr == [kind |-> "array", map |-> << >>, items |-> << >>]

\* obj[k] = v
Put(m, k, v) == [x \in (DOMAIN m) \cup {k} |-> IF x = k THEN v ELSE m[x]]

Digits == {"0", "1", "2", "3", "4", "5", "6", "7", "8", "9"}
DigitVal(c) ==
    CASE c = "0" -> 0 [] c = "1" -> 1 [] c = "2" -> 2 [] c = "3" -> 3 [] c = "4" -> 4
      [] c = "5" -> 5 [] c = "6" -> 6 [] c = "7" -> 7 [] c = "8" -> 8 [] c = "9" -> 9

\* the longest prefix of s made of digits
RECURSIVE DigitRun(_)
DigitRun(s) ==
    IF s # << >> /\ Head(s) \in Digits THEN << Head(s) >> \o DigitRun(Tail(s)) ELSE << >>

RECURSIVE DigitsValue(_)
DigitsValue(s) ==
    IF s = << >> THEN 0 ELSE DigitsValue(SubSeq(s, 1, Len(s) - 1)) * 10 + DigitVal(s[Len(s)])

Drop(s, k) == SubSeq(s, k + 1, Len(s))

RECURSIVE Normal(_, _)
Normal(m, x) ==
    IF m = 0 THEN NumVal(0, 0)
    ELSE IF m % 10 = 0 THEN Normal(m \div 10, x + 1)
    ELSE NumVal(m, x)

\* parseInt(s, 10): leading white space, a sign, then the digits that follow;
\* NaN when there is no digit there.  What follows the digits is ignored.
parseInt(s) ==
    LET t == trimLeft(s)
        signed == t # << >> /\ Head(t) \in {"+", "-"}
        u == IF signed THEN Tail(t) ELSE t
        ds == DigitRun(u)
        v == DigitsValue(ds)
    IN  IF ds = << >> THEN NaN
        ELSE Normal(IF signed /\ Head(t) = "-" THEN 0 - v ELSE v, 0)

\* parseFloat(s): leading white space, then the longest prefix that is a
\* decimal literal (sign, digits, fraction, exponent); NaN when there is none.
parseFloat(s) ==
    LET t == trimLeft(s)
        signed == t # << >> /\ Head(t) \in {"+", "-"}
        u == IF signed THEN Tail(t) ELSE t
        ip == DigitRun(u)
        r1 == Drop(u, Len(ip))
        dot == r1 # << >> /\ Head(r1) = "."
        fp == IF dot THEN DigitRun(Tail(r1)) ELSE << >>
        r2 == IF dot THEN Drop(r1, 1 + Len(fp)) ELSE r1
        isE == r2 # << >> /\ Head(r2) \in {"e", "E"}
        r3 == IF isE THEN Tail(r2) ELSE << >>
        esigned == r3 # << >> /\ Head(r3) \in {"+", "-"}
        ed == DigitRun(IF esigned THEN Tail(r3) ELSE r3)
        ev == IF ed = << >> THEN 0
              ELSE IF esigned /\ Head(r3) = "-" THEN 0 - DigitsValue(ed)
              ELSE DigitsValue(ed)
        m == DigitsValue(ip \o fp)
    IN  IF ip = << >> /\ fp = << >> THEN NaN
        ELSE Normal(IF signed /\ Head(t) = "-" THEN 0 - m ELSE m, ev - Len(fp))

isNaN(v) == v.t = "NaN"

\* new Date(s) for the texts of the model: a date-only form dddd-dd-dd, or a
\* date-time form dddd-dd-ddTdd:dd:dd followed by Z or by an offset +dd:dd or
\* -dd:dd, is a date; any other text of the model is an Invalid Date object.
IsDigits(s, from, n) == \A i \in (from + 1)..(from + n) : i <= Len(s) /\ s[i] \in Digits
newDate(s) ==
    LET dateOnly ==
            /\ Len(s) >= 10
            /\ IsDigits(s, 0, 4) /\ s[5] = "-" /\ IsDigits(s, 5, 2) /\ s[8] = "-"
            /\ IsDigits(s, 8, 2)
        timePart ==
            /\ Len(s) >= 19
            /\ s[11] = "T"
            /\ IsDigits(s, 11, 2) /\ s[14] = ":" /\ IsDigits(s, 14, 2) /\ s[17] = ":"
            /\ IsDigits(s, 17, 2)
        offset ==
            \/ Len(s) = 20 /\ s[20] = "Z"
            \/ /\ Len(s) = 25
               /\ s[20] \in {"+", "-"}
               /\ IsDigits(s, 20, 2) /\ s[23] = ":" /\ IsDigits(s, 23, 2)
    IN  IF dateOnly /\ (Len(s) = 10 \/ (timePart /\ offset))
          THEN DateVal(s)
          ELSE InvalidDate

(***************************************************************************)
(* Tree builder.  The handlers work on a record of the builder's variables *)
(* and give back the record after the call; fail is the message of the     *)
(* fail() that ended the call, "" when it returned.                        *)
(***************************************************************************)
Builder ==
    [state |-> state, cur |-> cur, stateStack |-> stateStack, objStack |-> objStack,
     curKey |-> curKey, heap |-> heap, fail |-> ""]

fail(b, msg) == [b EXCEPT !.fail = msg]

pushState(b, newState, newCur) ==
    [b EXCEPT !.stateStack = Append(@, b.state),
              !.objStack = Append(@, b.cur),
              !.state = newState,
              !.cur = newCur]

\* a variant of popState: objStack is read but not popped
popState_peekObj(b) ==
    [b EXCEPT !.state = IF b.stateStack = << >> THEN -1 ELSE b.stateStack[Len(b.stateStack)],
              !.stateStack = IF @ = << >> THEN @ ELSE SubSeq(@, 1, Len(@) - 1),
              !.cur = IF b.objStack = << >> THEN Undefined ELSE b.objStack[Len(b.objStack)]]

\* [].pop() is undefined
popState(b) ==
    [b EXCEPT !.state = IF b.stateStack = << >> THEN -1 ELSE b.stateStack[Len(b.stateStack)],
              !.stateStack = IF @ = << >> THEN @ ELSE SubSeq(@, 1, Len(@) - 1),
              !.cur = IF b.objStack = << >> THEN Undefined ELSE b.objStack[Len(b.objStack)],
              !.objStack = IF @ = << >> THEN @ ELSE SubSeq(@, 1, Len(@) - 1)]

\* a variant of assignUnderKey: the key stays pending
assignUnderKey_keepKey(b, v) ==
    [b EXCEPT !.heap[b.cur.n].map = Put(@, b.curKey.k, v)]

\* cur[curKey] = v; curKey = null
assignUnderKey(b, v) ==
    [b EXCEPT !.heap[b.cur.n].map = Put(@, b.curKey.k, v), !.curKey = NoKey]

\* a variant of pushToCur: cur.unshift(v)
pushToCur_unshift(b, v) == [b EXCEPT !.heap[b.cur.n].items = << v >> \o @]

\* cur.push(v)
pushToCur(b, v) == [b EXCEPT !.heap[b.cur.n].items = Append(@, v)]

dictState_enterDict(b) ==
    IF ~b.curKey.has THEN fail(b, "missing <key>")
    ELSE LET newDict == Ref(Len(b.heap) + 1)
             b1 == [b EXCEPT !.heap = Append(@, NewDict)]
         IN  pushState(assignUnderKey(b1, newDict), DICT_STATE, newDict)

dictState_enterArray(b) ==
    IF ~b.curKey.has THEN fail(b, "missing <key>")
    ELSE LET newArr == Ref(Len(b.heap) + 1)
             b1 == [b EXCEPT !.heap = Append(@, NewArr)]
         IN  pushState(assignUnderKey(b1, newArr), ARR_STATE, newArr)

\* a variant of arrState.enterDict: the new dictionary is not pushed to cur
arrState_enterDict_detached(b) ==
    LET newDict == Ref(Len(b.heap) + 1)
        b1 == [b EXCEPT !.heap = Append(@, NewDict)]
    IN  pushState(b1, DICT_STATE, newDict)

arrState_enterDict(b) ==
    LET newDict == Ref(Len(b.heap) + 1)
        b1 == [b EXCEPT !.heap = Append(@, NewDict)]
    IN  pushState(pushToCur(b1, newDict), DICT_STATE, newDict)

arrState_enterArray(b) ==
    LET newArr == Ref(Len(b.heap) + 1)
        b1 == [b EXCEPT !.heap = Append(@, NewArr)]
    IN  pushState(pushToCur(b1, newArr), ARR_STATE, newArr)

enterDict(b) ==
    IF b.state = DICT_STATE THEN dictState_enterDict(b)
    ELSE IF b.state = ARR_STATE THEN arrState_enterDict(b)
    ELSE LET newDict == Ref(Len(b.heap) + 1)
             b1 == [b EXCEPT !.heap = Append(@, NewDict), !.cur = newDict]
         IN  pushState(b1, DICT_STATE, newDict)

\* a variant of leaveDict: the kind of the open container is not looked at
leaveDict_anyContainer(b) ==
    IF b.state = DICT_STATE \/ b.state = ARR_STATE THEN popState(b)
    ELSE fail(b, "unexpected </dict>")

leaveDict(b) ==
    IF b.state = DICT_STATE THEN popState(b)
    ELSE IF b.state = ARR_STATE THEN fail(b, "unexpected </dict>")
    ELSE fail(b, "unexpected </dict>")

enterArray(b) ==
    IF b.state = DICT_STATE THEN dictState_enterArray(b)
    ELSE IF b.state = ARR_STATE THEN arrState_enterArray(b)
    ELSE LET newArr == Ref(Len(b.heap) + 1)
             b1 == [b EXCEPT !.heap = Append(@, NewArr), !.cur = newArr]
         IN  pushState(b1, ARR_STATE, newArr)

leaveArray(b) ==
    IF b.state = DICT_STATE THEN fail(b, "unexpected </array>")
    ELSE IF b.state = ARR_STATE THEN popState(b)
    ELSE fail(b, "unexpected </array>")

\* a variant of acceptKey: a second key replaces the pending one
acceptKey_overwrite(b, val) ==
    IF b.state = DICT_STATE THEN [b EXCEPT !.curKey = Key(val)]
    ELSE IF b.state = ARR_STATE THEN fail(b, "unexpected <key>")
    ELSE fail(b, "unexpected <key>")

\* a variant of acceptKey: the state is looked at only for the pending key
acceptKey_anyState(b, val) ==
    IF b.curKey.has THEN fail(b, "too many <key>")
    ELSE [b EXCEPT !.curKey = Key(val)]

acceptKey(b, val) ==
    IF b.state = DICT_STATE
      THEN IF b.curKey.has THEN fail(b, "too many <key>")
           ELSE [b EXCEPT !.curKey = Key(val)]
    ELSE IF b.state = ARR_STATE THEN fail(b, "unexpected <key>")
    ELSE fail(b, "unexpected <key>")

acceptString(b, val) ==
    IF b.state = DICT_STATE
      THEN IF ~b.curKey.has THEN fail(b, "missing <key>")
           ELSE assignUnderKey(b, val)
    ELSE IF b.state = ARR_STATE THEN pushToCur(b, val)
    ELSE [b EXCEPT !.cur = val]

acceptReal(b, val) ==
    IF isNaN(val) THEN fail(b, "cannot parse float")
    ELSE IF b.state = DICT_STATE
      THEN IF ~b.curKey.has THEN fail(b, "missing <key>")
           ELSE assignUnderKey(b, val)
    ELSE IF b.state = ARR_STATE THEN pushToCur(b, val)
    ELSE [b EXCEPT !.cur = val]

acceptInteger(b, val) ==
    IF isNaN(val) THEN fail(b, "cannot parse integer")
    ELSE IF b.state = DICT_STATE
      THEN IF ~b.curKey.has THEN fail(b, "missing <key>")
           ELSE assignUnderKey(b, val)
    ELSE IF b.state = ARR_STATE THEN pushToCur(b, val)
    ELSE [b EXCEPT !.cur = val]

acceptDate(b, val) ==
    IF b.state = DICT_STATE
      THEN IF ~b.curKey.has THEN fail(b, "missing <key>")
           ELSE assignUnderKey(b, val)
    ELSE IF b.state = ARR_STATE THEN pushToCur(b, val)
    ELSE [b EXCEPT !.cur = val]

acceptData(b, val) ==
    IF b.state = DICT_STATE
      THEN IF ~b.curKey.has THEN fail(b, "missing <key>")
           ELSE assignUnderKey(b, val)
    ELSE IF b.state = ARR_STATE THEN pushToCur(b, val)
    ELSE [b EXCEPT !.cur = val]

acceptBool(b, val) ==
    IF b.state = DICT_STATE
      THEN IF ~b.curKey.has THEN fail(b, "missing <key>")
           ELSE assignUnderKey(b, val)
    ELSE IF b.state = ARR_STATE THEN pushToCur(b, val)
    ELSE [b EXCEPT !.cur = val]

(***************************************************************************)
(* Tag reader                                                              *)
(***************************************************************************)
\* String.fromCodePoint(n): the characters the model's texts can name are
\* themselves, any other code point is the character written U+n.  A number
\* above 0x10FFFF makes fromCodePoint throw a RangeError.
RangeError == "RangeError"
fromCodePoint(n) ==
    CASE n = 34 -> "\"" [] n = 35 -> "#" [] n = 38 -> "&" [] n = 39 -> "'"
      [] n = 59 -> ";" [] n = 60 -> "<" [] n = 62 -> ">" [] n = 97 -> "a"
      [] n = 103 -> "g" [] n = 108 -> "l" [] n = 116 -> "t" [] n = 120 -> "x"
      [] n > 1114111 -> RangeError
      [] OTHER -> "U+" \o ToString(n)

HexDigits == Digits \cup {"a", "b", "c", "d", "e", "f"}
HexVal(c) ==
    CASE c = "a" -> 10 [] c = "b" -> 11 [] c = "c" -> 12 [] c = "d" -> 13
      [] c = "e" -> 14 [] c = "f" -> 15 [] OTHER -> DigitVal(c)

RECURSIVE HexRun(_)
HexRun(s) ==
    IF s # << >> /\ Head(s) \in HexDigits THEN << Head(s) >> \o HexRun(Tail(s)) ELSE << >>

RECURSIVE HexValue(_)
HexValue(s) ==
    IF s = << >> THEN 0 ELSE HexValue(SubSeq(s, 1, Len(s) - 1)) * 16 + HexVal(s[Len(s)])

StartsWith(s, p) == Len(s) >= Len(p) /\ SubSeq(s, 1, Len(p)) = p

\* str.replace(/&#([0-9]+);/g, ...)
RECURSIVE replaceDecimal(_)
replaceDecimal(s) ==
    IF s = << >> THEN << >>
    ELSE LET ds == IF StartsWith(s, << "&", "#" >>) THEN DigitRun(Drop(s, 2)) ELSE << >>
             after == Drop(s, 2 + Len(ds))
         IN  IF ds # << >> /\ after # << >> /\ Head(after) = ";"
               THEN << fromCodePoint(DigitsValue(ds)) >> \o replaceDecimal(Tail(after))
               ELSE << Head(s) >> \o replaceDecimal(Tail(s))

\* str.replace(/&#x([0-9a-f]+);/g, ...)
RECURSIVE replaceHex(_)
replaceHex(s) ==
    IF s = << >> THEN << >>
    ELSE LET hs == IF StartsWith(s, << "&", "#", "x" >>) THEN HexRun(Drop(s, 3)) ELSE << >>
             after == Drop(s, 3 + Len(hs))
         IN  IF hs # << >> /\ after # << >> /\ Head(after) = ";"
               THEN << fromCodePoint(HexValue(hs)) >> \o replaceHex(Tail(after))
               ELSE << Head(s) >> \o replaceHex(Tail(s))

\* str.replace(/&amp;|&lt;|&gt;|&quot;|&apos;/g, ...)
RECURSIVE replaceNamed(_)
replaceNamed(s) ==
    LET amp == << "&", "a", "m", "p", ";" >>
        lt == << "&", "l", "t", ";" >>
        gt == << "&", "g", "t", ";" >>
        quot == << "&", "q", "u", "o", "t", ";" >>
        apos == << "&", "a", "p", "o", "s", ";" >>
    IN  IF s = << >> THEN << >>
        ELSE IF StartsWith(s, amp) THEN << "&" >> \o replaceNamed(Drop(s, Len(amp)))
        ELSE IF StartsWith(s, lt) THEN << "<" >> \o replaceNamed(Drop(s, Len(lt)))
        ELSE IF StartsWith(s, gt) THEN << ">" >> \o replaceNamed(Drop(s, Len(gt)))
        ELSE IF StartsWith(s, quot) THEN << "\"" >> \o replaceNamed(Drop(s, Len(quot)))
        ELSE IF StartsWith(s, apos) THEN << "'" >> \o replaceNamed(Drop(s, Len(apos)))
        ELSE << Head(s) >> \o replaceNamed(Tail(s))

escapeVal(str) == replaceNamed(replaceHex(replaceDecimal(str)))

\* escapeVal threw: one of its fromCodePoint calls did
Threw(val) == \E i \in 1..Len(val) : val[i] = RangeError

\* a variant of parseOpenTag: a '/' before '>' is part of the name
parseOpenTag_noSlash(c) ==
    LET cap == captureUntil(c, << ">" >>)
    IN  [name |-> trim(cap.r), isClosed |-> FALSE, c |-> cap.c]

parseOpenTag(c) ==
    LET cap == captureUntil(c, << ">" >>)
        isClosed == charCodeAt(cap.r, Len(cap.r) - 1) = SLASH
        r == IF isClosed THEN substring(cap.r, 0, Len(cap.r) - 1) ELSE cap.r
    IN  [name |-> trim(r), isClosed |-> isClosed, c |-> cap.c]

parseTagValue(c, tag) ==
    IF tag.isClosed THEN [val |-> << >>, c |-> c]
    ELSE LET cap == captureUntil(c, << "<", "/" >>)
         IN  [val |-> escapeVal(cap.r), c |-> advanceUntil(cap.c, << ">" >>)]

(***************************************************************************)
(* Tag names                                                               *)
(***************************************************************************)
N_plist == << "p", "l", "i", "s", "t" >>
N_dict == << "d", "i", "c", "t" >>
N_array == << "a", "r", "r", "a", "y" >>
N_key == << "k", "e", "y" >>
N_string == << "s", "t", "r", "i", "n", "g" >>
N_real == << "r", "e", "a", "l" >>
N_integer == << "i", "n", "t", "e", "g", "e", "r" >>
N_date == << "d", "a", "t", "e" >>
N_data == << "d", "a", "t", "a" >>
N_true == << "t", "r", "u", "e" >>
N_false == << "f", "a", "l", "s", "e" >>

\* a variant of switchCase: the name is cut at its first white space, so that
\* attributes are dropped
RECURSIVE FirstWord(_)
FirstWord(name) ==
    IF name = << >> \/ IsWhitespace(Head(name)) THEN << >>
    ELSE << Head(name) >> \o FirstWord(Tail(name))
switchCase_firstWord(name) ==
    LET w == FirstWord(name)
    IN  CASE w = N_dict -> "dict"
          [] w = N_array -> "array"
          [] w = N_key -> "key"
          [] w = N_string -> "string"
          [] w = N_real -> "real"
          [] w = N_integer -> "integer"
          [] w = N_date -> "date"
          [] w = N_data -> "data"
          [] w = N_true -> "true"
          [] w = N_false -> "false"
          [] OTHER -> "default"

\* switch (tag.name): the case taken, "default" when the switch falls through
switchCase(name) ==
    CASE name = N_dict -> "dict"
      [] name = N_array -> "array"
      [] name = N_key -> "key"
      [] name = N_string -> "string"
      [] name = N_real -> "real"
      [] name = N_integer -> "integer"
      [] name = N_date -> "date"
      [] name = N_data -> "data"
      [] name = N_true -> "true"
      [] name = N_false -> "false"
      [] OTHER -> "default"

\* /^plist/.test(tag.name)
isPlistName(name) == StartsWith(name, N_plist)

\* the dispatch of a closing tag: the first of 'plist', 'dict', 'array' the
\* text at the cursor starts with, "none" when it starts with none of them
closeCase(c) ==
    IF advanceIfStartsWith(c, N_plist).ok THEN "plist"
    ELSE IF advanceIfStartsWith(c, N_dict).ok THEN "dict"
    ELSE IF advanceIfStartsWith(c, N_array).ok THEN "array"
    ELSE "none"

(***************************************************************************)
(* The main loop.  Iter is where an iteration stands after its first       *)
(* calls: ws the cursor after skipWhitespace, ch the character read there, *)
(* lt the cursor after it, peek the character after it.                    *)
(***************************************************************************)
Running == status = "running"

Iter ==
    LET ws == skipWhitespace(Cursor)
        lt == advancePosBy(ws, 1)
    IN  [ws |-> ws, ch |-> charCodeAt(content, ws.pos),
         lt |-> lt, peek |-> charCodeAt(content, lt.pos)]

\* the iteration got past the two checks at the head of the loop
InTagAt(h) == h.ws.pos < len /\ h.ch = LESS_THAN /\ h.lt.pos < len
InCloseAt(h) == InTagAt(h) /\ h.peek = SLASH
InOpenAt(h) == InTagAt(h) /\ h.peek \notin {QUESTION_MARK, EXCLAMATION_MARK, SLASH}

\* a closing tag: the cursor after '/' and the white space that follows it
AfterSlash(h) == skipWhitespace(advancePosBy(h.lt, 1))

InTag == Running /\ InTagAt(Iter)
InClose == Running /\ InCloseAt(Iter)
InOpen == Running /\ InOpenAt(Iter)
\* the tag an opening-tag iteration reads, and the text of a leaf
tag == parseOpenTag(Iter.lt)
tagValue == parseTagValue(tag.c, tag)

\* fail(msg): the Error thrown.  Its message is 'Near offset ' + pos + ': ' +
\* msg + ' ~~~' + content.substr(pos, 50) + '~~~'; arg is the tag name that
\* 'unexpected opened tag ' is followed by.
ExcerptLen == 50
\* variant: reports the offset of the character before the cursor
Error_previous(c, msg, arg) ==
    [msg |-> msg, arg |-> arg, near |-> "offset", at |-> c.pos - 1,
     excerpt |-> substr(content, c.pos - 1, ExcerptLen)]

Error(c, msg, arg) ==
    [msg |-> msg, arg |-> arg, near |-> "offset", at |-> c.pos,
     excerpt |-> substr(content, c.pos, ExcerptLen)]
NoErr == [msg |-> "", arg |-> << >>, near |-> "", at |-> 0, excerpt |-> << >>]
\* the RangeError String.fromCodePoint throws is not made by fail()
CodePointError == [msg |-> RangeError, arg |-> << >>, near |-> "", at |-> 0, excerpt |-> << >>]

\* the steps that hand a value to the builder
ValueSteps ==
    { "OpenDict", "OpenArray", "StringTag", "RealTag", "IntegerTag", "DateTag", "DataTag",
      "TrueTag", "FalseTag" }

\* a <key> was read in the current dictionary since its last assigned value
OwnKeyPending == curKey.has /\ keyIn = cur.n


SetCursor(c) == pos' = c.pos /\ line' = c.line /\ char' = c.char
SetBuilder(b) ==
    /\ state' = b.state
    /\ cur' = b.cur
    /\ stateStack' = b.stateStack
    /\ objStack' = b.objStack
    /\ curKey' = b.curKey
    /\ heap' = b.heap

\* the iteration ends in `continue`
\* what an iteration leaves behind: the branch taken, the cursor after the
\* white space and at the end, and the state of the builder
Seen(name, c, b) ==
    [step |-> name, ws |-> skipWhitespace(Cursor).pos, pos |-> c.pos,
     state |-> b.state, depth |-> Len(b.stateStack), curKey |-> b.curKey]

Continue(c, b, name) ==
    /\ SetCursor(c)
    /\ SetBuilder(b)
    /\ step' = name
    /\ keyIn' = IF name = "KeyTag" THEN cur.n ELSE keyIn
    /\ rootSets' = IF name \in ValueSteps /\ state = ROOT_STATE THEN rootSets + 1 ELSE rootSets
    /\ keyLeft' = (keyLeft \/ (name = "CloseDict" /\ OwnKeyPending))
    /\ opens' = IF Len(b.stateStack) > Len(stateStack)
                   THEN Append(opens, [state |-> state, cur |-> cur])
                 ELSE IF Len(b.stateStack) < Len(stateStack)
                   THEN SubSeq(opens, 1, Len(opens) - 1)
                 ELSE opens
    /\ log' = Append(log, Seen(name, c, b))
    /\ UNCHANGED << content, track, status, err, result, first, doc >>

\* the iteration ends in a throw of e
Throws(c, e, name) ==
    /\ SetCursor(c)
    /\ status' = "failed"
    /\ err' = e
    /\ step' = name
    /\ log' = Append(log, Seen(name, c, Builder))
    /\ UNCHANGED << content, track, state, cur, stateStack, objStack, curKey, heap,
                    result, keyIn, rootSets, keyLeft, opens, first, doc >>

\* the iteration ends in fail(msg)
Throw(c, msg, arg, name) == Throws(c, Error(c, msg, arg), name)

\* the iteration ends with the builder call whose outcome is b
Finish(c, b, name) ==
    IF b.fail # "" THEN Throw(c, b.fail, << >>, name) ELSE Continue(c, b, name)

\* a leaf: parseTagValue gave tv, then the accept call whose outcome is b
Leaf(tv, b, name) ==
    IF Threw(tv.val) THEN Throws(tv.c, CodePointError, name)
    ELSE Finish(tv.c, b, name)

(***************************************************************************)
(* The iterations of the main loop, one action per way through the body    *)
(***************************************************************************)
\* the input is exhausted (the loop condition, or the break after the
\* white space): return cur
Return ==
    /\ Running
    /\ LET ws == skipWhitespace(Cursor)
       IN  /\ ws.pos >= len
           /\ SetCursor(ws)
           /\ log' = Append(log, Seen("Return", ws, Builder))
    /\ status' = "returned"
    /\ result' = cur
    /\ step' = "Return"
    /\ UNCHANGED << content, track, state, cur, stateStack, objStack, curKey, heap,
                    err, keyIn, rootSets, keyLeft, opens, first, doc >>

ExpectedLt ==
    /\ Running
    /\ LET h == Iter
       IN  /\ h.ws.pos < len
           /\ h.ch # LESS_THAN
           /\ Throw(h.lt, "expected <", << >>, "ExpectedLt")

UnexpectedEnd ==
    /\ Running
    /\ LET h == Iter
       IN  /\ h.ws.pos < len
           /\ h.ch = LESS_THAN
           /\ h.lt.pos >= len
           /\ Throw(h.lt, "unexpected end of input", << >>, "UnexpectedEnd")

ProcessingInstruction ==
    /\ Running
    /\ LET h == Iter
       IN  /\ InTagAt(h)
           /\ h.peek = QUESTION_MARK
           /\ Continue(advanceUntil(advancePosBy(h.lt, 1), << "?", ">" >>), Builder,
                       "ProcessingInstruction")

Comment ==
    /\ Running
    /\ LET h == Iter
           dashes == advanceIfStartsWith(advancePosBy(h.lt, 1), << "-", "-" >>)
       IN  /\ InTagAt(h)
           /\ h.peek = EXCLAMATION_MARK
           /\ dashes.ok
           /\ Continue(advanceUntil(dashes.c, << "-", "-", ">" >>), Builder, "Comment")

Declaration ==
    /\ Running
    /\ LET h == Iter
           dashes == advanceIfStartsWith(advancePosBy(h.lt, 1), << "-", "-" >>)
       IN  /\ InTagAt(h)
           /\ h.peek = EXCLAMATION_MARK
           /\ ~dashes.ok
           /\ Continue(advanceUntil(dashes.c, << ">" >>), Builder, "Declaration")

ClosePlist ==
    /\ Running
    /\ LET h == Iter
           c == AfterSlash(h)
       IN  /\ InCloseAt(h)
           /\ closeCase(c) = "plist"
           /\ Continue(advanceUntil(advanceIfStartsWith(c, N_plist).c, << ">" >>), Builder,
                       "ClosePlist")

CloseDict ==
    /\ Running
    /\ LET h == Iter
           c == AfterSlash(h)
       IN  /\ InCloseAt(h)
           /\ closeCase(c) = "dict"
           /\ Finish(advanceUntil(advanceIfStartsWith(c, N_dict).c, << ">" >>),
                     leaveDict(Builder), "CloseDict")

CloseArray ==
    /\ Running
    /\ LET h == Iter
           c == AfterSlash(h)
       IN  /\ InCloseAt(h)
           /\ closeCase(c) = "array"
           /\ Finish(advanceUntil(advanceIfStartsWith(c, N_array).c, << ">" >>),
                     leaveArray(Builder), "CloseArray")

UnexpectedClosedTag ==
    /\ Running
    /\ LET h == Iter
           c == AfterSlash(h)
       IN  /\ InCloseAt(h)
           /\ closeCase(c) = "none"
           /\ Throw(c, "unexpected closed tag", << >>, "UnexpectedClosedTag")

OpenDict ==
    /\ Running
    /\ LET h == Iter
           t == parseOpenTag(h.lt)
           b == enterDict(Builder)
       IN  /\ InOpenAt(h)
           /\ switchCase(t.name) = "dict"
           /\ Finish(t.c, IF b.fail = "" /\ t.isClosed THEN leaveDict(b) ELSE b, "OpenDict")

OpenArray ==
    /\ Running
    /\ LET h == Iter
           t == parseOpenTag(h.lt)
           b == enterArray(Builder)
       IN  /\ InOpenAt(h)
           /\ switchCase(t.name) = "array"
           /\ Finish(t.c, IF b.fail = "" /\ t.isClosed THEN leaveArray(b) ELSE b, "OpenArray")

KeyTag ==
    /\ Running
    /\ LET h == Iter
           t == parseOpenTag(h.lt)
           tv == parseTagValue(t.c, t)
       IN  /\ InOpenAt(h)
           /\ switchCase(t.name) = "key"
           /\ Leaf(tv, acceptKey(Builder, tv.val), "KeyTag")

StringTag ==
    /\ Running
    /\ LET h == Iter
           t == parseOpenTag(h.lt)
           tv == parseTagValue(t.c, t)
       IN  /\ InOpenAt(h)
           /\ switchCase(t.name) = "string"
           /\ Leaf(tv, acceptString(Builder, StrVal(tv.val)), "StringTag")

RealTag ==
    /\ Running
    /\ LET h == Iter
           t == parseOpenTag(h.lt)
           tv == parseTagValue(t.c, t)
       IN  /\ InOpenAt(h)
           /\ switchCase(t.name) = "real"
           /\ Leaf(tv, acceptReal(Builder, parseFloat(tv.val)), "RealTag")

IntegerTag ==
    /\ Running
    /\ LET h == Iter
           t == parseOpenTag(h.lt)
           tv == parseTagValue(t.c, t)
       IN  /\ InOpenAt(h)
           /\ switchCase(t.name) = "integer"
           /\ Leaf(tv, acceptInteger(Builder, parseInt(tv.val)), "IntegerTag")

DateTag ==
    /\ Running
    /\ LET h == Iter
           t == parseOpenTag(h.lt)
           tv == parseTagValue(t.c, t)
       IN  /\ InOpenAt(h)
           /\ switchCase(t.name) = "date"
           /\ Leaf(tv, acceptDate(Builder, newDate(tv.val)), "DateTag")

DataTag ==
    /\ Running
    /\ LET h == Iter
           t == parseOpenTag(h.lt)
           tv == parseTagValue(t.c, t)
       IN  /\ InOpenAt(h)
           /\ switchCase(t.name) = "data"
           /\ Leaf(tv, acceptData(Builder, StrVal(tv.val)), "DataTag")

TrueTag ==
    /\ Running
    /\ LET h == Iter
           t == parseOpenTag(h.lt)
           tv == parseTagValue(t.c, t)
       IN  /\ InOpenAt(h)
           /\ switchCase(t.name) = "true"
           /\ Leaf(tv, acceptBool(Builder, BoolVal(TRUE)), "TrueTag")

FalseTag ==
    /\ Running
    /\ LET h == Iter
           t == parseOpenTag(h.lt)
           tv == parseTagValue(t.c, t)
       IN  /\ InOpenAt(h)
           /\ switchCase(t.name) = "false"
           /\ Leaf(tv, acceptBool(Builder, BoolVal(FALSE)), "FalseTag")

PlistTag ==
    /\ Running
    /\ LET h == Iter
           t == parseOpenTag(h.lt)
       IN  /\ InOpenAt(h)
           /\ switchCase(t.name) = "default"
           /\ isPlistName(t.name)
           /\ Continue(t.c, Builder, "PlistTag")

UnexpectedOpenedTag ==
    /\ Running
    /\ LET h == Iter
           t == parseOpenTag(h.lt)
       IN  /\ InOpenAt(h)
           /\ switchCase(t.name) = "default"
           /\ ~isPlistName(t.name)
           /\ Throw(t.c, "unexpected opened tag ", t.name, "UnexpectedOpenedTag")

Next ==
    \/ Return
    \/ ExpectedLt
    \/ UnexpectedEnd
    \/ ProcessingInstruction
    \/ Comment
    \/ Declaration
    \/ ClosePlist
    \/ CloseDict
    \/ CloseArray
    \/ UnexpectedClosedTag
    \/ OpenDict
    \/ OpenArray
    \/ KeyTag
    \/ StringTag
    \/ RealTag
    \/ IntegerTag
    \/ DateTag
    \/ DataTag
    \/ TrueTag
    \/ FalseTag
    \/ PlistTag
    \/ UnexpectedOpenedTag

(***************************************************************************)
(* The inputs.  An input is a text; the ones parse is run on here are:     *)
(*   - every sequence of at most MaxTags tags of TagAlphabet, read without  *)
(*     location tracking,                                                  *)
(*   - every well-formed document of at most MaxDocTags tags (the leaves   *)
(*     <string>x</string> and <true/>, the keys a and b), and the          *)
(*     documents of one leaf of each type (LeafDocs), bare or inside the   *)
(*     prolog, doctype and <plist> wrapper,                                *)
(*   - one tag put together from pieces (well-formed or not), after a      *)
(*     prefix that brings the parser into each of its states,              *)
(*   - one leaf element of each type and text, after the same prefixes,    *)
(*   - one failing tag after the same prefixes, with a long text after it, *)
(*   - one tag with a byte order mark in or around it, after the same      *)
(*     prefixes,                                                           *)
(*   - one processing instruction, comment, declaration or plist tag and   *)
(*     a leaf, after the same prefixes,                                    *)
(*   - self-closing containers and a tag, after the same prefixes.         *)
(* All but the first are read with and without location tracking.  doc        *)
(* records the tags an input of the first two kinds was made of.           *)
(***************************************************************************)
MaxTags == 5
MaxDocTags == 6

OpenText(n) == << "<" >> \o n \o << ">" >>
CloseText(n) == << "<", "/" >> \o n \o << ">" >>
EmptyText(n) == << "<" >> \o n \o << "/", ">" >>
ElemText(n, txt) == OpenText(n) \o txt \o CloseText(n)

\* a tag of a document: ev is "open", "close", "elem" (an element with its
\* text and closing tag) or "empty" (a self-closing element)
OpenTag(n) == [ev |-> "open", name |-> n, text |-> << >>]
CloseTag(n) == [ev |-> "close", name |-> n, text |-> << >>]
ElemTag(n, txt) == [ev |-> "elem", name |-> n, text |-> txt]
EmptyTag(n) == [ev |-> "empty", name |-> n, text |-> << >>]

TagText(t) ==
    CASE t.ev = "open" -> OpenText(t.name)
      [] t.ev = "close" -> CloseText(t.name)
      [] t.ev = "elem" -> ElemText(t.name, t.text)
      [] t.ev = "empty" -> EmptyText(t.name)

RECURSIVE Flatten(_)
Flatten(ts) == IF ts = << >> THEN << >> ELSE TagText(Head(ts)) \o Flatten(Tail(ts))

Header ==
    << "<", "?", "x", "m", "l", "?", ">", LINE_FEED,
       "<", "!", "D", "O", "C", "T", "Y", "P", "E", " ", "p", "l", "i", "s", "t", ">", LINE_FEED,
       "<", "p", "l", "i", "s", "t", " ", "v", "=", "1", ">", LINE_FEED >>
Footer == << LINE_FEED, "<", "/", "p", "l", "i", "s", "t", ">" >>

TagAlphabet ==
    { OpenTag(N_dict), CloseTag(N_dict), OpenTag(N_array), CloseTag(N_array),
      ElemTag(N_key, << "a" >>), EmptyTag(N_true) }

\* the input made of the tags d[1], ..., d[n]
TagInput(d) ==
    /\ content = Flatten(d)
    /\ doc = d

\* the well-formed values (the leaves are <string>x</string> and <true/>, the
\* keys a and b), dictionary bodies and array bodies of exactly n tags
RECURSIVE ValueDocs(_), DictBodies(_), ArrayBodies(_)
ValueDocs(n) ==
    IF n <= 0 THEN { }
    ELSE IF n = 1 THEN { << ElemTag(N_string, << "x" >>) >>, << EmptyTag(N_true) >> }
    ELSE { << OpenTag(N_dict) >> \o b \o << CloseTag(N_dict) >> : b \in DictBodies(n - 2) }
         \cup
         { << OpenTag(N_array) >> \o b \o << CloseTag(N_array) >> : b \in ArrayBodies(n - 2) }
DictBodies(n) ==
    IF n = 0 THEN { << >> }
    ELSE UNION { { << k >> \o v \o rest :
                     k \in { ElemTag(N_key, << "a" >>), ElemTag(N_key, << "b" >>) },
                     v \in ValueDocs(m),
                     rest \in DictBodies(n - 1 - m) } : m \in 1..(n - 1) }
ArrayBodies(n) ==
    IF n = 0 THEN { << >> }
    ELSE UNION { { v \o rest : v \in ValueDocs(m), rest \in ArrayBodies(n - m) } : m \in 1..n }

WellFormedDocs == UNION { ValueDocs(n) : n \in 1..MaxDocTags }

Wrappers == { << << >>, << >> >>, << Header, Footer >>, << << BOM >> \o Header, Footer >> }

DocInput(w, d) ==
    /\ content = w[1] \o Flatten(d) \o w[2]
    /\ doc = d

\* documents of one leaf of every type, alone, in an array and under a key
DocTexts ==
    { << >>, << "x" >>, << " ", "1", "2" >>, << "-", "1", ".", "5", "0" >>,
      << "1", "e", "2", "x" >>,
      << "2", "0", "1", "6", "-", "0", "8", "-", "1", "8" >> }
LeafTags ==
    { ElemTag(n, t) : n \in { N_string, N_data, N_integer, N_real, N_date, N_true, N_false },
                      t \in DocTexts }
    \cup { EmptyTag(n) : n \in { N_string, N_data, N_integer, N_real, N_date, N_true, N_false } }
LeafDocs ==
    UNION { { << l >>,
              << OpenTag(N_array), l, CloseTag(N_array) >>,
              << OpenTag(N_dict), ElemTag(N_key, << "a" >>), l, CloseTag(N_dict) >> } :
            l \in LeafTags }

\* prefixes after which the parser is in Root state, in a dictionary without
\* and with a pending key, and in an array
Contexts ==
    { << >>,
      OpenText(N_dict),
      OpenText(N_dict) \o ElemText(N_key, << "a" >>),
      OpenText(N_array) }

\* what follows '<', the name, what follows the name, the end of the tag and
\* what follows the tag
Leads == { << >>, << " " >>, << "/" >>, << "/", " " >>, << "?" >>, << "!" >>,
           << "!", "-", "-" >> }
Names == { << >>, N_dict, N_array, N_plist, N_key, << "x" >> }
Trails == { << >>, << "x" >>, << " ", "x" >>, << " " >>, << "/" >>, << " ", "/" >> }
Ends == { << >>, << ">" >> }
Rests == { << >>, << "x", "<", "/" >>, << "?", ">" >>, << "-", "-", ">" >>,
           << LINE_FEED, ">" >> }

PieceInput(c, l, n, t, e, r) ==
    /\ content = c \o << "<" >> \o l \o n \o t \o e \o r
    /\ doc = << >>

LeafNames == { N_key, N_string, N_real, N_integer, N_date, N_data, N_true, N_false }
LeafTexts ==
    { << >>, << "x" >>, << " ", "1", "2" >>, << "-", "1", ".", "5", "0" >>,
      << "1", "e", "2", "x" >>, << ".", "x" >>,
      << "2", "0", "1", "6", "-", "0", "8", "-", "1", "8" >>,
      << "&", "l", "t", ";" >>, << "&", "#", "6", "0", ";" >>,
      << "&", "a", "m", "p", ";", "l", "t", ";" >>, << "&", "#", "x", "3", "c", ";" >>,
      << "&", "#", "x", "3", "C", ";" >>,
      << "&", "#", "9", "9", "9", "9", "9", "9", "9", ";" >>, << "&", "x", ";" >>,
      << "&", "#", "3", "8", ";", "l", "t", ";" >> }

\* an element with its closing tag, without it, or self-closing
LeafForms(n, t) == { ElemText(n, t), OpenText(n) \o t, EmptyText(n) }

\* tags that are passed over, with '<' and '>' inside, before a leaf
IgnoredPieces ==
    { p \o EmptyText(N_true) :
        p \in { << "<", "!", "-", "-", "<", "a", ">", "-", "-", " ", ">", "-", "-", ">" >>,
                << "<", "?", "x", ">", "<", "?", ">" >>,
                << "<", "!", "a", "<", "b", ">" >>,
                << "<", "!", "-", ">" >>,
                EmptyText(N_plist),
                CloseText(N_plist),
                << "<", "/", " ", "p", "l", "i", "s", "t", " ", "x", ">" >> } }

\* a self-closing container and what may follow it
SelfClosedPieces ==
    { p \o r :
        p \in { EmptyText(N_dict), EmptyText(N_array),
                EmptyText(N_array) \o EmptyText(N_dict) },
        r \in { << >>, EmptyText(N_true), ElemText(N_key, << "b" >>) \o EmptyText(N_true),
                CloseText(N_dict), CloseText(N_array) } }

LeafInput(c, f) ==
    /\ content = c \o f
    /\ doc = << >>

\* a tag that fails after the prefixes, followed by more than ExcerptLen
\* characters
LongBads ==
    { bad \o Header \o OpenText(N_dict) \o CloseText(N_dict) \o Footer :
        bad \in { << "b" >>, CloseText(N_dict), CloseText(N_array),
                  ElemText(N_key, << "a" >>), OpenText(<< "x" >>),
                  ElemText(N_integer, << "x" >>) } }
\* a byte order mark that is not the first character of the input
BomPieces ==
    { << " ", BOM >> \o OpenText(N_dict),
      << BOM, BOM >> \o OpenText(N_dict),
      OpenText(N_dict) \o << BOM >> \o CloseText(N_dict),
      OpenText(<< BOM >> \o N_dict),
      OpenText(N_dict \o << BOM >>),
      OpenText(N_dict \o << BOM, "x" >>),
      EmptyText(N_true \o << BOM >>),
      OpenText(N_array) \o CloseText(<< BOM >> \o N_array),
      ElemText(N_string, << BOM, "x" >>),
      ElemText(N_integer, << BOM, "1", "2" >>),
      ElemText(N_real, << BOM, "1", ".", "5" >>) }
\* the first run has not ended
NoFirst ==
    [mode |-> "", status |-> "", heap |-> << >>, result |-> Null, err |-> NoErr,
     pos |-> 0, log |-> << >>, state |-> ROOT_STATE, cur |-> Null,
     stateStack |-> << >>, objStack |-> << >>, curKey |-> NoKey]

Init ==
    /\ \/ /\ \E n \in 0..MaxTags : \E d \in [1..n -> TagAlphabet] : TagInput(d)
          /\ track = FALSE
       \/ /\ \/ \E w \in Wrappers, d \in WellFormedDocs : DocInput(w, d)
             \/ \E w \in Wrappers, d \in LeafDocs : DocInput(w, d)
             \/ \E c \in Contexts, l \in Leads, n \in Names, t \in Trails, e \in Ends,
                   r \in Rests : PieceInput(c, l, n, t, e, r)
             \/ \E c \in Contexts, n \in LeafNames, t \in LeafTexts :
                  \E f \in LeafForms(n, t) : LeafInput(c, f)
             \/ \E c \in Contexts, bad \in LongBads : LeafInput(c, bad)
             \/ \E c \in Contexts, piece \in BomPieces : LeafInput(c, piece)
             \/ \E c \in Contexts, piece \in IgnoredPieces : LeafInput(c, piece)
             \/ \E c \in Contexts, piece \in SelfClosedPieces : LeafInput(c, piece)
          /\ track \in BOOLEAN
    /\ pos = IF len > 0 /\ charCodeAt(content, 0) = BOM THEN 1 ELSE 0
    /\ line = 1
    /\ char = 0
    /\ state = ROOT_STATE
    /\ cur = Null
    /\ stateStack = << >>
    /\ objStack = << >>
    /\ curKey = NoKey
    /\ heap = << >>
    /\ status = "running"
    /\ err = NoErr
    /\ result = Null
    /\ step = "start"
    /\ keyIn = 0
    /\ rootSets = 0
    /\ keyLeft = FALSE
    /\ opens = << >>
    /\ log = << >>
    /\ first = NoFirst

Spec == Init /\ [][Next]_vars

(***************************************************************************)
(* parse runs on: an iteration that can be taken is taken.  parse is one   *)
(* synchronous call, so nothing can suspend it between two iterations of   *)
(* its loop.  This is WF_vars(Next), written out as                        *)
(*     []<>(~ENABLED <<Next>>_vars) \/ []<><<Next>>_vars                    *)
(* with Running for ENABLED <<Next>>_vars: every action of Next starts     *)
(* with Running, and an iteration of a running parse always ends in one of *)
(* continue, throw or return.  (Written with ENABLED, the enabling         *)
(* condition is recomputed for every use of every LET definition, which    *)
(* does not end in reasonable time even on '<true/>'.)                     *)
(* The inputs are those of Spec with at most MaxFairTags tags of           *)
(* TagAlphabet, without the well-formed documents and the leaf texts, and  *)
(* with '<' alone as the single tag.                                       *)
(***************************************************************************)
MaxFairTags == 2

FairInit ==
    /\ \/ \E n \in 0..MaxFairTags : \E d \in [1..n -> TagAlphabet] : TagInput(d)
       \/ \E w \in Wrappers, d \in LeafDocs : DocInput(w, d)
       \/ \E c \in Contexts, r \in Rests : PieceInput(c, << >>, << >>, << >>, << >>, r)
       \/ \E c \in Contexts,
             piece \in LongBads \cup BomPieces \cup IgnoredPieces \cup SelfClosedPieces :
               LeafInput(c, piece)
    /\ track \in BOOLEAN
    /\ pos = IF len > 0 /\ charCodeAt(content, 0) = BOM THEN 1 ELSE 0
    /\ line = 1
    /\ char = 0
    /\ state = ROOT_STATE
    /\ cur = Null
    /\ stateStack = << >>
    /\ objStack = << >>
    /\ curKey = NoKey
    /\ heap = << >>
    /\ status = "running"
    /\ err = NoErr
    /\ result = Null
    /\ step = "start"
    /\ keyIn = 0
    /\ rootSets = 0
    /\ keyLeft = FALSE
    /\ opens = << >>
    /\ log = << >>
    /\ first = NoFirst

RunsOn == []<>(~Running) \/ []<><<Next>>_vars

FairSpec == FairInit /\ [][Next]_vars /\ RunsOn

(***************************************************************************)
(* Two runs on one input.  To compare parse(s) with parse(s, key), with    *)
(* parse(U+FEFF + s) and with parse of s with its self-closing containers  *)
(* written out, the input of a run that has ended is parsed again, once,   *)
(* in one of these ways; `first` keeps the outcome of the first run.  The  *)
(* first runs are without location tracking, on the inputs of Spec but for *)
(* the well-formed documents: at most MaxTwiceTags tags of TagAlphabet,    *)
(* and the single tags at the start of the input only.                     *)
(***************************************************************************)
MaxTwiceTags == 3

\* parse is entered again, on newContent
Again(mode, newContent, newTrack) ==
    /\ status # "running"
    /\ first.mode = ""
    /\ first' = [mode |-> mode, status |-> status, heap |-> heap, result |-> result,
                 err |-> err, pos |-> pos, log |-> log, state |-> state, cur |-> cur,
                 stateStack |-> stateStack, objStack |-> objStack, curKey |-> curKey]
    /\ content' = newContent
    /\ track' = newTrack
    /\ pos' = IF Len(newContent) > 0 /\ charCodeAt(newContent, 0) = BOM THEN 1 ELSE 0
    /\ line' = 1
    /\ char' = 0
    /\ state' = ROOT_STATE
    /\ cur' = Null
    /\ stateStack' = << >>
    /\ objStack' = << >>
    /\ curKey' = NoKey
    /\ heap' = << >>
    /\ status' = "running"
    /\ err' = NoErr
    /\ result' = Null
    /\ step' = "start"
    /\ keyIn' = 0
    /\ rootSets' = 0
    /\ keyLeft' = FALSE
    /\ opens' = << >>
    /\ log' = << >>
    /\ UNCHANGED doc

\* parse(content, locationKeyName) after parse(content)
TrackAgain ==
    /\ ~track
    /\ Again("track", content, TRUE)

\* parse(U+FEFF + content) after parse(content)
BomAgain ==
    /\ charCodeAt(content, 0) # BOM
    /\ Again("bom", << BOM >> \o content, track)

\* s with every '<dict/>' written '<dict></dict>' and every '<array/>'
\* written '<array></array>'
RECURSIVE Expand(_)
Expand(s) ==
    LET at(i, n) == i + Len(EmptyText(n)) - 1 <= Len(s)
                    /\ SubSeq(s, i, i + Len(EmptyText(n)) - 1) = EmptyText(n)
        hits == { i \in 1..Len(s) : at(i, N_dict) \/ at(i, N_array) }
        i == CHOOSE h \in hits : \A k \in hits : h <= k
        n == IF at(i, N_dict) THEN N_dict ELSE N_array
    IN  IF hits = {} THEN s
        ELSE SubSeq(s, 1, i - 1) \o OpenText(n) \o CloseText(n)
               \o Expand(Drop(s, i - 1 + Len(EmptyText(n))))

\* parse of the input with its self-closing containers written as an opening
\* and a closing tag, after parse(content)
ExpandAgain ==
    /\ Expand(content) # content
    /\ Again("expand", Expand(content), track)

NextTwice ==
    \/ Next
    \/ TrackAgain
    \/ BomAgain
    \/ ExpandAgain

InitTwice ==
    /\ \/ \E n \in 0..MaxTwiceTags : \E d \in [1..n -> TagAlphabet] : TagInput(d)
       \/ \E w \in Wrappers, d \in LeafDocs : DocInput(w, d)
       \/ \E l \in Leads, n \in Names, t \in Trails, e \in Ends, r \in Rests :
             PieceInput(<< >>, l, n, t, e, r)
       \/ \E c \in Contexts, n \in LeafNames, t \in LeafTexts :
            \E f \in LeafForms(n, t) : LeafInput(c, f)
       \/ \E c \in Contexts, bad \in LongBads : LeafInput(c, bad)
       \/ \E c \in Contexts, piece \in BomPieces : LeafInput(c, piece)
       \/ \E c \in Contexts, piece \in SelfClosedPieces : LeafInput(c, piece)
    /\ track = FALSE
    /\ pos = IF len > 0 /\ charCodeAt(content, 0) = BOM THEN 1 ELSE 0
    /\ line = 1
    /\ char = 0
    /\ state = ROOT_STATE
    /\ cur = Null
    /\ stateStack = << >>
    /\ objStack = << >>
    /\ curKey = NoKey
    /\ heap = << >>
    /\ status = "running"
    /\ err = NoErr
    /\ result = Null
    /\ step = "start"
    /\ keyIn = 0
    /\ rootSets = 0
    /\ keyLeft = FALSE
    /\ opens = << >>
    /\ log = << >>
    /\ first = NoFirst

SpecTwice == InitTwice /\ [][NextTwice]_vars

(***************************************************************************)
(* The tree a value stands for: references followed through the heap.      *)
(* A node is a leaf value, a dictionary (a map from keys to nodes) or an   *)
(* array (a sequence of nodes).                                            *)
(***************************************************************************)
LeafNode(v) == [t |-> "leaf", v |-> v, map |-> << >>, items |-> << >>]
DictNode(m) == [t |-> "dict", v |-> Null, map |-> m, items |-> << >>]
ArrayNode(xs) == [t |-> "array", v |-> Null, map |-> << >>, items |-> xs]

RECURSIVE TreeOf(_, _)
TreeOf(h, v) ==
    IF v.t # "ref" THEN LeafNode(v)
    ELSE LET o == h[v.n]
         IN  IF o.kind = "dict"
               THEN DictNode([k \in DOMAIN o.map |-> TreeOf(h, o.map[k])])
               ELSE ArrayNode([i \in 1..Len(o.items) |-> TreeOf(h, o.items[i])])

(***************************************************************************)
(* parseWithSAX, the reference parser of the tests.  The sax library is    *)
(* not part of the repository: it is taken to report, for a document given *)
(* as its tags, an opentag and a closetag event per element with a text    *)
(* event between them when the element has text.                           *)
(***************************************************************************)
saxEventsOf(t) ==
    LET opentag == [ev |-> "opentag", name |-> t.name, text |-> << >>]
        text == [ev |-> "text", name |-> << >>, text |-> t.text]
        closetag == [ev |-> "closetag", name |-> t.name, text |-> << >>]
    IN  CASE t.ev = "open" -> << opentag >>
          [] t.ev = "close" -> << closetag >>
          [] t.ev = "empty" -> << opentag, closetag >>
          [] t.ev = "elem" ->
               IF t.text = << >> THEN << opentag, closetag >>
               ELSE << opentag, text, closetag >>

RECURSIVE saxEvents(_)
saxEvents(d) == IF d = << >> THEN << >> ELSE saxEventsOf(Head(d)) \o saxEvents(Tail(d))

\* currObject and its parents are the stack, innermost last
SaxInit == [stack |-> << >>, result |-> LeafNode(Null), errors |-> 0, text |-> << >>]
SaxFrame(node) == [value |-> node, lastKey |-> NoKey]

onopentag(r, name) ==
    LET r1 == IF name = N_dict THEN [r EXCEPT !.stack = Append(@, SaxFrame(DictNode(<< >>)))]
              ELSE IF name = N_array
                THEN [r EXCEPT !.stack = Append(@, SaxFrame(ArrayNode(<< >>)))]
              ELSE IF name = N_key /\ r.stack # << >>
                THEN [r EXCEPT !.stack[Len(r.stack)].lastKey = NoKey]
              ELSE r
    IN  [r1 EXCEPT !.text = << >>]

ontext(r, txt) == [r EXCEPT !.text = txt]

saxError(r) == [r EXCEPT !.errors = @ + 1]

\* the end of onclosetag: the value goes to the result, the array or the dictionary
saxAssign(r, value) ==
    IF r.stack = << >> THEN [r EXCEPT !.result = value]
    ELSE LET top == r.stack[Len(r.stack)]
         IN  IF top.value.t = "array"
               THEN [r EXCEPT !.stack[Len(r.stack)].value.items = Append(@, value)]
             ELSE IF top.lastKey.has /\ top.lastKey.k # << >>
               THEN [r EXCEPT !.stack[Len(r.stack)].value.map = Put(@, top.lastKey.k, value)]
             ELSE saxError(r)

onclosetag(r, name) ==
    IF name = N_key
      THEN IF r.stack = << >> \/ r.stack[Len(r.stack)].value.t = "array" THEN saxError(r)
           ELSE [r EXCEPT !.stack[Len(r.stack)].lastKey = Key(r.text)]
    ELSE IF name \in {N_dict, N_array}
      THEN IF r.stack = << >> THEN saxError(r)
           ELSE saxAssign([r EXCEPT !.stack = SubSeq(@, 1, Len(@) - 1)],
                          r.stack[Len(r.stack)].value)
    ELSE IF name \in {N_string, N_data} THEN saxAssign(r, LeafNode(StrVal(r.text)))
    ELSE IF name = N_date THEN saxAssign(r, LeafNode(newDate(r.text)))
    ELSE IF name = N_integer
      THEN IF isNaN(parseInt(r.text)) THEN saxError(r)
           ELSE saxAssign(r, LeafNode(parseInt(r.text)))
    ELSE IF name = N_real
      THEN IF isNaN(parseFloat(r.text)) THEN saxError(r)
           ELSE saxAssign(r, LeafNode(parseFloat(r.text)))
    ELSE IF name = N_true THEN saxAssign(r, LeafNode(BoolVal(TRUE)))
    ELSE IF name = N_false THEN saxAssign(r, LeafNode(BoolVal(FALSE)))
    ELSE IF name = N_plist THEN r
    ELSE saxError(r)

RECURSIVE saxWrite(_, _)
saxWrite(r, evs) ==
    IF evs = << >> THEN r
    ELSE LET e == Head(evs)
         IN  saxWrite(CASE e.ev = "opentag" -> onopentag(r, e.name)
                        [] e.ev = "text" -> ontext(r, e.text)
                        [] e.ev = "closetag" -> onclosetag(r, e.name),
                      Tail(evs))

parseWithSAX(d) == saxWrite(SaxInit, saxEvents(d))

(***************************************************************************)
(* Well-formed documents: exactly one value; a value is a leaf, or a dict  *)
(* whose every value follows its own non-empty key, or an array of values; *)
(* every container is closed.  WfValue(d, i) is the index after the value  *)
(* that starts at d[i], 0 when there is no well-formed value there.        *)
(***************************************************************************)
ValueLeafNames == { N_string, N_data, N_integer, N_real, N_date, N_true, N_false }

\* the text of a leaf is a value of its type: a number for integer and real,
\* a date for date; any text for the others
LeafOk(t) ==
    CASE t.name = N_integer -> ~isNaN(parseInt(t.text))
      [] t.name = N_real -> ~isNaN(parseFloat(t.text))
      [] t.name = N_date -> newDate(t.text) # InvalidDate
      [] OTHER -> TRUE

RECURSIVE WfValue(_, _), WfDictBody(_, _), WfArrayBody(_, _)
WfValue(d, i) ==
    IF i > Len(d) THEN 0
    ELSE IF d[i].ev \in {"elem", "empty"} /\ d[i].name \in ValueLeafNames
      THEN IF LeafOk(d[i]) THEN i + 1 ELSE 0
    ELSE IF d[i].ev = "empty" /\ d[i].name \in {N_dict, N_array} THEN i + 1
    ELSE IF d[i] = OpenTag(N_dict) THEN WfDictBody(d, i + 1)
    ELSE IF d[i] = OpenTag(N_array) THEN WfArrayBody(d, i + 1)
    ELSE 0
WfDictBody(d, i) ==
    IF i > Len(d) THEN 0
    ELSE IF d[i] = CloseTag(N_dict) THEN i + 1
    ELSE IF d[i].ev = "elem" /\ d[i].name = N_key /\ d[i].text # << >>
      THEN LET j == WfValue(d, i + 1) IN IF j = 0 THEN 0 ELSE WfDictBody(d, j)
    ELSE 0
WfArrayBody(d, i) ==
    IF i > Len(d) THEN 0
    ELSE IF d[i] = CloseTag(N_array) THEN i + 1
    ELSE LET j == WfValue(d, i) IN IF j = 0 THEN 0 ELSE WfArrayBody(d, j)

WellFormed(d) == WfValue(d, 1) = Len(d) + 1

\* the input is the well-formed document doc, bare or wrapped
WellFormedInput ==
    /\ WellFormed(doc)
    /\ \E w \in Wrappers : content = w[1] \o Flatten(doc) \o w[2]

(***************************************************************************)
(* C1.  For every well-formed document, parse does not fail and returns    *)
(* exactly the tree the reference construction yields: each dictionary     *)
(* maps each key to the value that follows it, each array holds its        *)
(* elements in document order, nested containers sit where they were       *)
(* opened.                                                                 *)
(***************************************************************************)
C1_WellFormedGivesReferenceTree ==
    WellFormedInput =>
        /\ status # "failed"
        /\ status = "returned" =>
             /\ parseWithSAX(doc).errors = 0
             /\ TreeOf(heap, result) = parseWithSAX(doc).result

\* a returned dictionary that maps a key to an array with an element in it
C1_Witness ==
    /\ WellFormedInput
    /\ status = "returned"
    /\ LET tree == TreeOf(heap, result)
       IN  /\ tree.t = "dict"
           /\ \E k \in DOMAIN tree.map :
                tree.map[k].t = "array" /\ Len(tree.map[k].items) >= 1

(***************************************************************************)
(* C2.  In InDictionary state a value (a leaf, or an opening dict or       *)
(* array) is accepted only if a <key> was read in that same dictionary     *)
(* since its last assigned value; otherwise the parse fails.  A key read   *)
(* in one dictionary is never the key of a value of another dictionary.    *)
(***************************************************************************)
C2_ValueNeedsKeyOfSameDict ==
    [][ (Running /\ state = DICT_STATE /\ step' \in ValueSteps /\ ~OwnKeyPending)
          => status' = "failed" ]_vars

(***************************************************************************)
(* C3.  A closing </dict> succeeds only in InDictionary state and a        *)
(* closing </array> only in InArray state; in every other state the parse  *)
(* fails with 'unexpected </dict>' resp. 'unexpected </array>'.  A close   *)
(* that succeeds pops a frame of the matching kind, never an empty stack.  *)
(***************************************************************************)
PopsFrameOf(kind) ==
    /\ status' = "running"
    /\ stateStack # << >>
    /\ objStack # << >>
    /\ cur.t = "ref"
    /\ heap[cur.n].kind = kind
    /\ state' = stateStack[Len(stateStack)]
    /\ cur' = objStack[Len(objStack)]
    /\ stateStack' = SubSeq(stateStack, 1, Len(stateStack) - 1)
    /\ objStack' = SubSeq(objStack, 1, Len(objStack) - 1)

FailsWith(msg) == status' = "failed" /\ err'.msg = msg

C3_CloseOnlyMatchingContainer ==
    [][ /\ step' = "CloseDict" =>
             IF state = DICT_STATE THEN PopsFrameOf("dict")
             ELSE FailsWith("unexpected </dict>")
        /\ step' = "CloseArray" =>
             IF state = ARR_STATE THEN PopsFrameOf("array")
             ELSE FailsWith("unexpected </array>") ]_vars

\* a </dict> has just closed a dictionary that was an element of an array
C3_Witness ==
    /\ step = "CloseDict"
    /\ status = "running"
    /\ state = ARR_STATE
    /\ Len(heap[cur.n].items) >= 1

(***************************************************************************)
(* C4.  In InDictionary state, a <key> (whose text decodes) that arrives   *)
(* while a key is pending fails with 'too many <key>'; with no key pending *)
(* it sets the pending key to its decoded text and changes neither the     *)
(* state, the frame stack nor the dictionary being built.                  *)
(***************************************************************************)
C4_KeyInDictionary ==
    [][ (step' = "KeyTag" /\ state = DICT_STATE /\ ~Threw(tagValue.val)) =>
          IF curKey.has THEN FailsWith("too many <key>")
          ELSE /\ status' = "running"
               /\ curKey' = Key(tagValue.val)
               /\ UNCHANGED << state, stateStack, objStack, cur, heap >> ]_vars

\* the key '<', written &lt;, is pending in a dictionary
C4_Witness ==
    /\ step = "KeyTag"
    /\ status = "running"
    /\ state = DICT_STATE
    /\ curKey = Key(<< "<" >>)

(***************************************************************************)
(* C5.  A <key> tag (whose text decodes) processed in Root state or in     *)
(* InArray state always fails with 'unexpected <key>', whatever tags       *)
(* preceded it.                                                            *)
(***************************************************************************)
C5_KeyOutsideDictionaryFails ==
    [][ (step' = "KeyTag" /\ state \in {ROOT_STATE, ARR_STATE} /\ ~Threw(tagValue.val)) =>
          FailsWith("unexpected <key>") ]_vars

\* a <key> has failed in an array nested in another container
C5_Witness ==
    /\ step = "KeyTag"
    /\ status = "failed"
    /\ err.msg = "unexpected <key>"
    /\ state = ARR_STATE
    /\ Len(stateStack) >= 2

(***************************************************************************)
(* C6.  An opening tag whose trimmed name is not exactly one of dict,      *)
(* array, key, string, data, integer, real, date, true, false fails with   *)
(* 'unexpected opened tag <name>', unless the name begins with 'plist', in *)
(* which case the tag is ignored.  A structural tag with attributes, such  *)
(* as 'dict x', is not that structural tag.                                *)
(***************************************************************************)
StructuralNames ==
    { N_dict, N_array, N_key, N_string, N_data, N_integer, N_real, N_date, N_true, N_false }

C6_UnknownOpeningTag ==
    [][ (InOpen /\ tag.name \notin StructuralNames) =>
          IF StartsWith(tag.name, N_plist)
            THEN /\ status' = "running"
                 /\ UNCHANGED << state, stateStack, objStack, cur, curKey, heap >>
            ELSE /\ status' = "failed"
                 /\ err'.msg = "unexpected opened tag "
                 /\ err'.arg = tag.name ]_vars

\* <dict x> has failed as the unknown tag 'dict x'
C6_Witness ==
    /\ status = "failed"
    /\ err.msg = "unexpected opened tag "
    /\ err.arg = N_dict \o << " ", "x" >>

(***************************************************************************)
(* C7.  A closing tag is dispatched on its name read up to '>' and         *)
(* trimmed: a closing tag whose name is not exactly plist, dict or array   *)
(* fails with 'unexpected closed tag'.                                     *)
(***************************************************************************)
closeName == trim(captureUntil(advancePosBy(Iter.lt, 1), << ">" >>).r)

C7_UnknownClosingTagFails ==
    [][ (InClose /\ closeName \notin {N_plist, N_dict, N_array}) =>
          FailsWith("unexpected closed tag") ]_vars

(***************************************************************************)
(* C8.  parse throws for every input that ends inside an unclosed tag: a   *)
(* lone '<', a processing instruction never closed by '?>', a leaf element *)
(* whose closing tag is missing.                                           *)
(***************************************************************************)
\* str occurs in the input at or after offset from
Occurs(str, from) ==
    \E i \in from..(len - Len(str)) : \A j \in 1..Len(str) : content[i + j] = str[j]

LeafCases == { "key", "string", "real", "integer", "date", "data", "true", "false" }

EndsInsideTag ==
    \/ Iter.ws.pos < len /\ Iter.ch = LESS_THAN /\ Iter.lt.pos >= len
    \/ InTag /\ Iter.peek = QUESTION_MARK /\ ~Occurs(<< "?", ">" >>, Iter.lt.pos + 1)
    \/ /\ InOpen
       /\ switchCase(tag.name) \in LeafCases
       /\ ~tag.isClosed
       /\ ~Occurs(<< "<", "/" >>, tag.c.pos)

C8_UnclosedTagThrows ==
    [][ (Running /\ EndsInsideTag) => status' = "failed" ]_vars

(***************************************************************************)
(* C9.  When the delimiter sought by advanceUntil or captureUntil does not *)
(* occur at or after the current position, the position moves to the end   *)
(* of the input and captureUntil returns all the remaining text, without   *)
(* error; so a string or data element left unterminated at the end of the  *)
(* input is accepted with the remaining text as its content, and the parse *)
(* returns normally.                                                       *)
(***************************************************************************)
Delimiters == { << ">" >>, << "<", "/" >>, << "?", ">" >>, << "-", "-", ">" >> }
Remaining(from) == SubSeq(content, from + 1, len)

ScannersRunToEnd ==
    \A d \in Delimiters :
        ~Occurs(d, pos) =>
            LET cap == captureUntil(Cursor, d)
            IN  /\ advanceUntil(Cursor, d).pos = len
                /\ cap.c.pos = len
                /\ cap.r = Remaining(pos)

UnterminatedText ==
    /\ InOpen
    /\ switchCase(tag.name) \in {"string", "data"}
    /\ ~tag.isClosed
    /\ ~Occurs(<< "<", "/" >>, tag.c.pos)
    /\ ~Threw(escapeVal(Remaining(tag.c.pos)))

\* the value v has been stored where the state says values go
Stored(v) ==
    /\ status' = "running"
    /\ IF state = ROOT_STATE THEN cur' = v
       ELSE IF state = ARR_STATE
         THEN heap'[cur.n].items = Append(heap[cur.n].items, v)
       ELSE heap'[cur.n].map = Put(heap[cur.n].map, curKey.k, v)

C10_ReturnsOutermostValue ==
    (status = "returned" /\ objStack # << >>) => result = objStack[1]

(***************************************************************************)
(* Numeric literals, as a whole text: an optional sign and digits; for a   *)
(* real, also a fraction and an exponent.  White space around the literal  *)
(* is allowed.                                                             *)
(***************************************************************************)
Unsigned(s) == IF s # << >> /\ Head(s) \in {"+", "-"} THEN Tail(s) ELSE s

IsIntegerLiteral(s) ==
    LET u == Unsigned(trim(s))
    IN  u # << >> /\ DigitRun(u) = u

IsNumericLiteral(s) ==
    LET u == Unsigned(trim(s))
        ip == DigitRun(u)
        r1 == Drop(u, Len(ip))
        dot == r1 # << >> /\ Head(r1) = "."
        fp == IF dot THEN DigitRun(Tail(r1)) ELSE << >>
        r2 == IF dot THEN Drop(r1, 1 + Len(fp)) ELSE r1
        ex == IF r2 # << >> /\ Head(r2) \in {"e", "E"} THEN Unsigned(Tail(r2)) ELSE << >>
    IN  /\ ip \o fp # << >>
        /\ \/ r2 = << >>
           \/ Head(r2) \in {"e", "E"} /\ ex # << >> /\ DigitRun(ex) = ex

\* the value of this iteration's leaf can be stored: in a dictionary a key is pending
CanStore == state = DICT_STATE => curKey.has

(***************************************************************************)
(* C11.  An <integer> leaf whose decoded text is not, as a whole, a base-10 *)
(* signed integer literal fails with 'cannot parse integer', and a <real>  *)
(* leaf whose decoded text is not, as a whole, a numeric literal fails     *)
(* with 'cannot parse float', in every state.                              *)
(***************************************************************************)
C11_MalformedNumberFails ==
    [][ /\ (step' = "IntegerTag" /\ CanStore /\ ~Threw(tagValue.val)
              /\ ~IsIntegerLiteral(tagValue.val))
             => FailsWith("cannot parse integer")
        /\ (step' = "RealTag" /\ CanStore /\ ~Threw(tagValue.val)
              /\ ~IsNumericLiteral(tagValue.val))
             => FailsWith("cannot parse float") ]_vars

(***************************************************************************)
(* Unescaping as a reference: one pass over the text in which a decimal    *)
(* reference &#N;, a hexadecimal reference &#xH; (digits 0-9, a-f, A-F)    *)
(* and the five named entities are replaced, and every other character is  *)
(* copied.                                                                 *)
(***************************************************************************)
AnyCaseHexDigits == HexDigits \cup {"A", "B", "C", "D", "E", "F"}
AnyCaseHexVal(c) ==
    CASE c = "A" -> 10 [] c = "B" -> 11 [] c = "C" -> 12 [] c = "D" -> 13
      [] c = "E" -> 14 [] c = "F" -> 15 [] OTHER -> HexVal(c)

RECURSIVE AnyCaseHexRun(_)
AnyCaseHexRun(s) ==
    IF s # << >> /\ Head(s) \in AnyCaseHexDigits
      THEN << Head(s) >> \o AnyCaseHexRun(Tail(s))
      ELSE << >>

RECURSIVE AnyCaseHexValue(_)
AnyCaseHexValue(s) ==
    IF s = << >> THEN 0
    ELSE AnyCaseHexValue(SubSeq(s, 1, Len(s) - 1)) * 16 + AnyCaseHexVal(s[Len(s)])

RECURSIVE Unescaped(_)
Unescaped(s) ==
    LET ds == IF StartsWith(s, << "&", "#" >>) THEN DigitRun(Drop(s, 2)) ELSE << >>
        afterDs == Drop(s, 2 + Len(ds))
        hs == IF StartsWith(s, << "&", "#", "x" >>) THEN AnyCaseHexRun(Drop(s, 3)) ELSE << >>
        afterHs == Drop(s, 3 + Len(hs))
        named == { e \in { << << "&", "a", "m", "p", ";" >>, "&" >>,
                           << << "&", "l", "t", ";" >>, "<" >>,
                           << << "&", "g", "t", ";" >>, ">" >>,
                           << << "&", "q", "u", "o", "t", ";" >>, "\"" >>,
                           << << "&", "a", "p", "o", "s", ";" >>, "'" >> } :
                   StartsWith(s, e[1]) }
    IN  IF s = << >> THEN << >>
        ELSE IF ds # << >> /\ afterDs # << >> /\ Head(afterDs) = ";"
          THEN << fromCodePoint(DigitsValue(ds)) >> \o Unescaped(Tail(afterDs))
        ELSE IF hs # << >> /\ afterHs # << >> /\ Head(afterHs) = ";"
          THEN << fromCodePoint(AnyCaseHexValue(hs)) >> \o Unescaped(Tail(afterHs))
        ELSE IF named # {}
          THEN LET e == CHOOSE x \in named : TRUE
               IN  << e[2] >> \o Unescaped(Drop(s, Len(e[1])))
        ELSE << Head(s) >> \o Unescaped(Tail(s))

\* the text of this iteration's leaf as it stands in the input
rawText == captureUntil(tag.c, << "<", "/" >>).r

(***************************************************************************)
(* C12.  Leaf text, key text included, is unescaped before use: decimal    *)
(* and hexadecimal references (hex digits in either case) become their     *)
(* code point, the five named entities their character, anything else is   *)
(* kept.  Stated for a string stored at the root and for a key set in a    *)
(* dictionary, the text being one whose references name code points.       *)
(***************************************************************************)
C12_LeafTextUnescaped ==
    [][ /\ (step' = "StringTag" /\ state = ROOT_STATE /\ ~tag.isClosed
              /\ ~Threw(Unescaped(rawText)))
             => (status' = "running" /\ cur' = StrVal(Unescaped(rawText)))
        /\ (step' = "KeyTag" /\ state = DICT_STATE /\ ~curKey.has /\ ~tag.isClosed
              /\ ~Threw(Unescaped(rawText)))
             => (status' = "running" /\ curKey' = Key(Unescaped(rawText))) ]_vars

(***************************************************************************)
(* C13.  Exactly one value per key: a parse in which a dictionary is       *)
(* closed while a key read in it is still pending fails instead of         *)
(* returning a result.                                                     *)
(***************************************************************************)
C13_PendingKeyAtCloseFails == status = "returned" => ~keyLeft

(***************************************************************************)
(* C14.  The Root state holds at most one top-level value: in a parse that *)
(* returns, once a first value has been set in Root state no later tag     *)
(* sets or replaces it.                                                    *)
(***************************************************************************)
C14_OneRootValue == status = "returned" => rootSets <= 1

(***************************************************************************)
(* C15.  A <date> leaf whose decoded text does not parse as a timestamp    *)
(* fails the parse, in every state, rather than storing a date value.      *)
(***************************************************************************)
C15_InvalidDateFails ==
    [][ (step' = "DateTag" /\ CanStore /\ ~Threw(tagValue.val)
           /\ newDate(tagValue.val) = InvalidDate)
          => status' = "failed" ]_vars

(***************************************************************************)
(* C16.  Every failure raised by fail() is one Error whose message is      *)
(* 'Near offset P: <msg> ~~~<excerpt>~~~', P being the cursor position at  *)
(* the moment of detection and <excerpt> the at most 50 characters of the  *)
(* input that start at P.  When the first character after the white space, *)
(* at index i, is not '<', P = i + 1 and <msg> is 'expected <'; when the   *)
(* input ends after '<', P is the length of the input.                     *)
(***************************************************************************)
FailRaised == status' = "failed" /\ err'.msg # RangeError

C16_ErrorMessage ==
    [][ /\ FailRaised =>
             /\ err'.near = "offset"
             /\ err'.at = pos'
             /\ Len(err'.excerpt) <= ExcerptLen
             /\ err'.excerpt =
                  SubSeq(content, pos' + 1,
                         IF len < pos' + ExcerptLen THEN len ELSE pos' + ExcerptLen)
        /\ (Running /\ Iter.ws.pos < len /\ Iter.ch # LESS_THAN) =>
             /\ FailRaised
             /\ err'.msg = "expected <"
             /\ err'.at = Iter.ws.pos + 1
        /\ (FailRaised /\ step' = "UnexpectedEnd") => err'.at = len ]_vars

\* 'b...' has failed at offset 1 with an excerpt of 50 characters, cut short
C16_Witness ==
    /\ status = "failed"
    /\ err.msg = "expected <"
    /\ content[1] = "b"
    /\ err.at = 1
    /\ Len(err.excerpt) = ExcerptLen
    /\ len > 1 + ExcerptLen
    /\ err.excerpt = SubSeq(content, 2, 1 + ExcerptLen)

(***************************************************************************)
(* C19.  With location tracking enabled, the message of a failed parse     *)
(* reports the line and column of the failure; with tracking disabled it   *)
(* reports the character offset.                                           *)
(***************************************************************************)
C19_TrackedErrorGivesLineColumn ==
    (status = "failed" /\ err.msg # RangeError) =>
        IF track THEN err.near = "line and column"
        ELSE err.near = "offset" /\ err.at = pos

(***************************************************************************)
(* C20.  The state and the stacks are consistent after any sequence of     *)
(* tags: stateStack and objStack have the same length, the nesting depth;  *)
(* state is ROOT_STATE exactly when the stacks are empty; in DICT_STATE    *)
(* the current object is a dictionary and in ARR_STATE an array; and a     *)
(* successful close restores the state and the current object of the       *)
(* enclosing container as they were when the closed container was opened.  *)
(* A container opened in ROOT_STATE has no enclosing container: its close  *)
(* restores ROOT_STATE and leaves the closed container as current object.  *)
(***************************************************************************)
StacksConsistent ==
    /\ Len(stateStack) = Len(objStack)
    /\ Len(stateStack) = Len(opens)
    /\ state = ROOT_STATE <=> stateStack = << >>
    /\ state \in {ROOT_STATE, DICT_STATE, ARR_STATE}
    /\ state = DICT_STATE => cur.t = "ref" /\ heap[cur.n].kind = "dict"
    /\ state = ARR_STATE => cur.t = "ref" /\ heap[cur.n].kind = "array"

ClosedNow ==
    /\ step' \in {"CloseDict", "CloseArray"}
    /\ pos' # pos
    /\ status' # "failed"

C20_StacksConsistent ==
    /\ []StacksConsistent
    /\ [][ ClosedNow =>
             LET opened == opens[Len(opens)]
             IN  /\ Len(stateStack') = Len(stateStack) - 1
                 /\ Len(objStack') = Len(objStack) - 1
                 /\ state' = opened.state
                 /\ cur' = IF opened.state = ROOT_STATE THEN cur ELSE opened.cur ]_vars

\* a dictionary inside an array inside a dictionary has just been closed
C20_Witness ==
    /\ status = "running"
    /\ step = "CloseDict"
    /\ state = ARR_STATE
    /\ Len(stateStack) = 2
    /\ stateStack = << ROOT_STATE, DICT_STATE >>
    /\ heap[cur.n].kind = "array"
    /\ Len(heap[cur.n].items) >= 1

(***************************************************************************)
(* C17.  Exactly one leading byte order mark is skipped, and a U+FEFF at   *)
(* any other position is not skipped.  Stated here for the second half: a  *)
(* U+FEFF in the text of an opening tag is part of the tag name, so that   *)
(* the tag is none of the known tags, and a U+FEFF before the digits of an *)
(* integer or real makes the text no number.                               *)
(***************************************************************************)
HasBom(s) == \E i \in 1..Len(s) : s[i] = BOM
tagText == captureUntil(Iter.lt, << ">" >>).r

C17_InnerBomNotSkipped ==
    [][ /\ (InOpen /\ HasBom(tagText)) =>
             /\ status' = "failed"
             /\ err'.msg = "unexpected opened tag"
        /\ (InOpen /\ ~tag.isClosed /\ tag.name \in {N_integer, N_real}
              /\ rawText # << >> /\ Head(rawText) = BOM /\ CanStore) =>
             status' = "failed" ]_vars

\* the first half of C17: behind a byte order mark, the input is read to the
\* same value, or fails in the same way one character further
LeadingBomSkipped ==
    (first.mode = "bom" /\ status # "running") =>
        /\ status = first.status
        /\ heap = first.heap
        /\ result = first.result
        /\ err.msg = first.err.msg
        /\ err.excerpt = first.err.excerpt
        /\ pos = first.pos + 1

(***************************************************************************)
(* C18.  Location tracking is not observable in the outcome: the run with  *)
(* tracking and the run without hold the same cursor position after every  *)
(* scanner primitive, go through the same builder states, and end with the *)
(* same result value or with a failure at the same position.  The cursor   *)
(* moves only in advancePosBy, by the same distance in both modes; the     *)
(* iterations of the tracked run leave behind what those of the untracked  *)
(* run did; and the two runs end alike.                                    *)
(***************************************************************************)
C18_TrackingNotObservable ==
    /\ \A by \in 0..(len - pos) :
          advanceLoop(Cursor, by).pos = [Cursor EXCEPT !.pos = pos + by].pos
    /\ first.mode = "track" =>
          /\ Len(log) <= Len(first.log)
          /\ log = SubSeq(first.log, 1, Len(log))
          /\ status # "running" =>
                /\ status = first.status
                /\ log = first.log
                /\ heap = first.heap
                /\ result = first.result
                /\ err = first.err
                /\ pos = first.pos

\* a document of several lines has been read a second time, with tracking,
\* to a container
C18_Witness ==
    /\ first.mode = "track"
    /\ track
    /\ status = "returned"
    /\ line > 2
    /\ result.t = "ref"
    /\ Len(log) >= 4

(***************************************************************************)
(* C21.  The pending key is cleared exactly when a value is assigned under *)
(* it: a step that stores a value into a dictionary (a leaf, or a newly    *)
(* opened dictionary or array) leaves no pending key and the value under   *)
(* the key that was pending; and a step after which a pending key is gone  *)
(* is such a step.                                                         *)
(***************************************************************************)
StoredInDict ==
    /\ Running
    /\ state = DICT_STATE
    /\ step' \in ValueSteps
    /\ pos' # pos
    /\ status' = "running"

C21_KeyClearedByAssignment ==
    [][ /\ StoredInDict =>
             /\ curKey.has
             /\ curKey' = NoKey
             /\ curKey.k \in DOMAIN heap'[cur.n].map
        /\ (curKey.has /\ ~curKey'.has) =>
             /\ StoredInDict
             /\ curKey.k \in DOMAIN heap'[cur.n].map ]_vars

\* a leaf has just been stored under the key a of a dictionary inside an array
C21_Witness ==
    /\ status = "running"
    /\ step = "TrueTag"
    /\ state = DICT_STATE
    /\ stateStack = << ROOT_STATE, ARR_STATE >>
    /\ curKey = NoKey
    /\ DOMAIN heap[cur.n].map = { << "a" >> }
    /\ heap[cur.n].map[<< "a" >>] = BoolVal(TRUE)

(***************************************************************************)
(* C22.  Processing instructions, comments (passed over up to the first    *)
(* '-->' whatever they contain), other '<!' declarations (up to the next   *)
(* '>'), opening tags whose name begins with 'plist' and closing plist     *)
(* tags change only the cursor: in whatever state they occur, the state,   *)
(* the stacks, the pending key and the objects built so far stay as they   *)
(* are, and the parse goes on.                                             *)
(***************************************************************************)
\* the text after the white space starts with str
TextAt(str) == substr(content, Iter.ws.pos, Len(str)) = str
\* the position after the first str at or after from, the end without one
PastFirst(str, from) ==
    LET i == indexOf(content, str, from)
    IN  IF i = -1 THEN len ELSE i + Len(str)
OnlyCursorMoves ==
    /\ status' = "running"
    /\ UNCHANGED << state, stateStack, objStack, cur, curKey, heap, result, err >>

C22_IgnoredTagsMoveOnlyCursor ==
    [][ /\ (Running /\ TextAt(<< "<", "?" >>)) =>
             /\ OnlyCursorMoves
             /\ pos' = PastFirst(<< "?", ">" >>, Iter.ws.pos + 2)
        /\ (Running /\ TextAt(<< "<", "!", "-", "-" >>)) =>
             /\ OnlyCursorMoves
             /\ pos' = PastFirst(<< "-", "-", ">" >>, Iter.ws.pos + 4)
        /\ (Running /\ TextAt(<< "<", "!" >>) /\ ~TextAt(<< "<", "!", "-", "-" >>)) =>
             /\ OnlyCursorMoves
             /\ pos' = PastFirst(<< ">" >>, Iter.ws.pos + 2)
        /\ (InOpen /\ StartsWith(tag.name, N_plist)) =>
             /\ OnlyCursorMoves
             /\ pos' = PastFirst(<< ">" >>, Iter.ws.pos + 1)
        /\ (InClose /\ substr(content, AfterSlash(Iter).pos, Len(N_plist)) = N_plist) =>
             /\ OnlyCursorMoves
             /\ pos' = PastFirst(<< ">" >>, AfterSlash(Iter).pos + Len(N_plist)) ]_vars

\* a comment with '<' and '>' inside has been passed over in a dictionary
\* with a pending key
C22_Witness ==
    /\ status = "running"
    /\ step = "Comment"
    /\ state = DICT_STATE
    /\ curKey = Key(<< "a" >>)
    /\ pos = Len(content) - Len(EmptyText(N_true))
    /\ \E i \in 1..(Len(content) - 5) :
          /\ SubSeq(content, i, i + 3) = << "<", "!", "-", "-" >>
          /\ content[i + 4] = "<"
          /\ content[i + 6] = ">"

(***************************************************************************)
(* C23.  A container is attached to its parent at close time: while a      *)
(* nested dictionary or array is open, the parent dictionary or array does *)
(* not yet contain it.                                                     *)
(***************************************************************************)
\* the object parent holds v as the value of a key or as an item
Holds(parent, v) ==
    /\ parent.t = "ref"
    /\ \/ \E k \in DOMAIN heap[parent.n].map : heap[parent.n].map[k] = v
       \/ \E i \in 1..Len(heap[parent.n].items) : heap[parent.n].items[i] = v

C23_AttachedAtClose ==
    (status = "running" /\ Len(objStack) >= 2) => ~Holds(objStack[Len(objStack)], cur)

(***************************************************************************)
(* C23, as the code has it.  A container is attached to its parent at open *)
(* time: the step that opens a dictionary or array inside a dictionary or  *)
(* array creates it empty and makes it a value of the parent in that same  *)
(* step, under the pending key or as the last item; while it is open, the  *)
(* parent holds it; and the step that closes it changes no object.         *)
(***************************************************************************)
OpenedNested ==
    /\ Running
    /\ state \in {DICT_STATE, ARR_STATE}
    /\ step' \in {"OpenDict", "OpenArray"}
    /\ pos' # pos
    /\ status' = "running"

ParentHoldsOpen ==
    \A i \in 2..Len(objStack) :
        Holds(objStack[i], IF i = Len(objStack) THEN cur ELSE objStack[i + 1])

C23_AttachedAtOpen ==
    /\ []ParentHoldsOpen
    /\ [][ /\ OpenedNested =>
                LET new == Ref(Len(heap) + 1)
                IN  /\ Len(heap') = Len(heap) + 1
                    /\ heap'[new.n] = IF step' = "OpenDict" THEN NewDict ELSE NewArr
                    /\ IF state = DICT_STATE
                         THEN heap'[cur.n].map[curKey.k] = new
                         ELSE heap'[cur.n].items = Append(heap[cur.n].items, new)
           /\ ClosedNow => heap' = heap ]_vars

\* a dictionary opened in an array is open, empty, and the only item of the array
C23_Witness ==
    /\ status = "running"
    /\ step = "OpenDict"
    /\ stateStack = << ROOT_STATE, ARR_STATE >>
    /\ state = DICT_STATE
    /\ heap[cur.n] = NewDict
    /\ heap[objStack[2].n].items = << cur >>

(***************************************************************************)
(* C24.  A self-closing container tag is an opening tag followed at once   *)
(* by its closing tag: the parse of an input and the parse of the same     *)
(* input with '<dict/>' written '<dict></dict>' and '<array/>' written     *)
(* '<array></array>' end with the same state, stacks, pending key and      *)
(* objects, or with the same failure.  A self-closing leaf has the empty   *)
(* string as its text and reads nothing beyond its own '>'.                *)
(***************************************************************************)
SelfClosedLeaf == InOpen /\ tag.isClosed /\ switchCase(tag.name) \in LeafCases

SameAsWrittenOut ==
    (first.mode = "expand" /\ status # "running") =>
        /\ status = first.status
        /\ state = first.state
        /\ stateStack = first.stateStack
        /\ objStack = first.objStack
        /\ cur = first.cur
        /\ curKey = first.curKey
        /\ heap = first.heap
        /\ result = first.result
        /\ err.msg = first.err.msg

C24_SelfClosing ==
    /\ []SameAsWrittenOut
    /\ [][ SelfClosedLeaf =>
             /\ tagValue.val = << >>
             /\ pos' = PastFirst(<< ">" >>, Iter.ws.pos + 1)
             /\ (step' = "StringTag" /\ state = ROOT_STATE) => cur' = StrVal(<< >>)
             /\ (step' = "DataTag" /\ state = ARR_STATE) =>
                   heap'[cur.n].items = Append(heap[cur.n].items, StrVal(<< >>))
             /\ (step' = "KeyTag" /\ state = DICT_STATE /\ ~curKey.has) =>
                   curKey' = Key(<< >>)
             /\ step' = "IntegerTag" =>
                   (status' = "failed" /\ err'.msg = "cannot parse integer") ]_vars

\* '<dict><key>a</key><array></array><key>b</key><true/>', first read with
\* '<array/>', has been read to the end
C24_Witness ==
    /\ first.mode = "expand"
    /\ status = "returned"
    /\ state = DICT_STATE
    /\ curKey = NoKey
    /\ \E k \in DOMAIN heap[cur.n].map :
          /\ heap[cur.n].map[k].t = "ref"
          /\ heap[heap[cur.n].map[k].n] = NewArr
    /\ << "b" >> \in DOMAIN heap[cur.n].map
    /\ heap = first.heap

(***************************************************************************)
(* C25.  Unescaping is a single pass over the raw leaf text: each          *)
(* reference or entity of the raw text is replaced once, and what a        *)
(* replacement produces is never read as (part of) another reference or    *)
(* entity.  OnePass is that single pass, with the patterns of escapeVal.   *)
(* Stated for a string stored at the root.                                 *)
(***************************************************************************)
RECURSIVE OnePass(_)
OnePass(s) ==
    LET ds == IF StartsWith(s, << "&", "#" >>) THEN DigitRun(Drop(s, 2)) ELSE << >>
        afterDs == Drop(s, 2 + Len(ds))
        hs == IF StartsWith(s, << "&", "#", "x" >>) THEN HexRun(Drop(s, 3)) ELSE << >>
        afterHs == Drop(s, 3 + Len(hs))
        named == { e \in { << << "&", "a", "m", "p", ";" >>, "&" >>,
                           << << "&", "l", "t", ";" >>, "<" >>,
                           << << "&", "g", "t", ";" >>, ">" >>,
                           << << "&", "q", "u", "o", "t", ";" >>, "\"" >>,
                           << << "&", "a", "p", "o", "s", ";" >>, "'" >> } :
                   StartsWith(s, e[1]) }
    IN  IF s = << >> THEN << >>
        ELSE IF ds # << >> /\ afterDs # << >> /\ Head(afterDs) = ";"
          THEN << fromCodePoint(DigitsValue(ds)) >> \o OnePass(Tail(afterDs))
        ELSE IF hs # << >> /\ afterHs # << >> /\ Head(afterHs) = ";"
          THEN << fromCodePoint(HexValue(hs)) >> \o OnePass(Tail(afterHs))
        ELSE IF named # {}
          THEN LET e == CHOOSE x \in named : TRUE
               IN  << e[2] >> \o OnePass(Drop(s, Len(e[1])))
        ELSE << Head(s) >> \o OnePass(Tail(s))

C25_SinglePassUnescape ==
    [][ (step' = "StringTag" /\ state = ROOT_STATE /\ ~tag.isClosed
           /\ ~Threw(OnePass(rawText)))
          => (status' = "running" /\ cur' = StrVal(OnePass(rawText))) ]_vars

(***************************************************************************)
(* C26.  The cursor never moves back and stays within the input: in every  *)
(* reachable state 0 <= pos <= len, with and without location tracking;    *)
(* no step decreases pos; and each scanner primitive, called where the     *)
(* cursor stands with a text the parser calls it with, leaves it between   *)
(* pos and len.                                                            *)
(***************************************************************************)
CursorInInput ==
    /\ 0 <= pos
    /\ pos <= len
    /\ skipWhitespace(Cursor).pos \in pos..len
    /\ pos < len => advancePosBy(Cursor, 1).pos \in pos..len
    /\ \A str \in { << "-", "-" >>, N_plist, N_dict, N_array } :
          advanceIfStartsWith(Cursor, str).c.pos \in pos..len
    /\ \A str \in { << "?", ">" >>, << "-", "-", ">" >>, << ">" >> } :
          advanceUntil(Cursor, str).pos \in pos..len
    /\ \A str \in { << ">" >>, << "<", "/" >> } :
          captureUntil(Cursor, str).c.pos \in pos..len

C26_CursorMonotone ==
    /\ []CursorInInput
    /\ [][pos' >= pos]_vars

\* with location tracking, a tag without its '>' has taken the cursor to the
\* end of the input
C26_Witness ==
    /\ track
    /\ status = "returned"
    /\ pos = len
    /\ content[len] # ">"
    /\ step = "Return"
    /\ len > 0
    /\ log[Len(log)].ws = len
    /\ Len(log) >= 2
    /\ log[Len(log) - 1].pos = len

(***************************************************************************)
(* C27.  parse terminates on every finite input: each iteration of the     *)
(* main loop either fails or moves the cursor forward by at least one      *)
(* character, so the loop ends, by a return or by an error, after at most  *)
(* len iterations.                                                         *)
(***************************************************************************)
\* where the cursor was when the last step of log began
LastStart ==
    IF Len(log) = 1 THEN (IF charCodeAt(content, 0) = BOM THEN 1 ELSE 0)
    ELSE log[Len(log) - 1].pos

\* the iterations of the main loop so far: a return by the loop condition is
\* no iteration, a return by the break after the white space is one
Iterations ==
    IF status = "returned" /\ LastStart >= len THEN Len(log) - 1 ELSE Len(log)

C27_Terminates ==
    /\ [][ (Running /\ step' # "Return") => (status' = "failed" \/ pos' > pos) ]_vars
    /\ [](Iterations <= len)
    /\ <>(status # "running")

\* a parse of four iterations over a dictionary with one entry has returned
C27_Witness ==
    /\ status = "returned"
    /\ Iterations = 4
    /\ result.t = "ref"
    /\ heap[result.n].kind = "dict"
    /\ DOMAIN heap[result.n].map # {}
    /\ pos = len

====
